---------------------------- MODULE CryptoStream ----------------------------
(***************************************************************************)
(* EncryptReader and DecryptReader of internal/crypto, one after the       *)
(* other: a goroutine reads plain text from a source, seals what each read *)
(* happened to return as a chunk of its own and writes it to a pipe; what  *)
(* the reader of the pipe keeps is later decrypted by another goroutine,   *)
(* which opens everything after the nonce as one.  The program does not    *)
(* use the package yet.                                                    *)
(*                                                                         *)
(* Text is counted in blocks.  A sealed chunk opens only whole and alone:  *)
(* that is what authenticated encryption does.                             *)
(***************************************************************************)
EXTENDS Naturals, Sequences

CONSTANTS
  MaxText,  \* bound on the blocks of the plain text
  Buffer    \* the most blocks that one read returns (32 KiB)

ASSUME CryptoAssumption == MaxText \in Nat /\ Buffer \in Nat \ {0}

VARIABLES
  text,    \* the blocks of the plain text
  read,    \* how many of them the encryptor has read
  enc,     \* what the encryptor is at
  chunk,   \* the size of the chunk it is about to write
  ended,   \* how the encryptor's pipe ended for its reader
  nonce,   \* the reader has the nonce
  kept,    \* the sizes of the sealed chunks the reader has kept
  dec,     \* what the decryptor is at
  plain,   \* how many blocks came out of the decryptor
  opened   \* how the decryptor's pipe ended for its reader

encVars == <<text, read, enc, chunk, ended, nonce, kept>>
decVars == <<dec, plain, opened>>
vars == <<encVars, decVars>>

----------------------------------------------------------------------------
\* "refused" is the error of aead.Open, "error" any other one.
Ends == {"open", "eof", "error", "refused"}

TypeOK ==
  /\ text \in 0..MaxText /\ read \in 0..text /\ plain \in 0..text
  /\ enc \in {"nonce", "read", "write", "done"}
  /\ chunk \in 0..Buffer
  /\ nonce \in BOOLEAN
  /\ kept \in Seq(1..Buffer) /\ Len(kept) <= text
  /\ dec \in {"idle", "read", "open", "write", "done"}
  /\ {ended, opened} \subseteq Ends

Init ==
  /\ text \in 0..MaxText
  /\ read = 0 /\ enc = "nonce" /\ chunk = 0 /\ ended = "open"
  /\ nonce = FALSE /\ kept = <<>>
  /\ dec = "idle" /\ plain = 0 /\ opened = "open"

----------------------------------------------------------------------------
\* The goroutine of EncryptReader.  The pipe is unbuffered: a write is done when
\* the reader has taken it.
WriteNonce ==
  /\ enc = "nonce"
  /\ enc' = "read"
  /\ nonce' = TRUE
  /\ UNCHANGED <<text, read, chunk, ended, kept, decVars>>

\* Mutant: a read that returned nothing is sealed too.
ReadSomeOrNone ==
  /\ enc = "read"
  /\ \E n \in 0..Buffer :
       /\ read + n <= text
       /\ read' = read + n
       /\ chunk' = n
  /\ enc' = "write"
  /\ UNCHANGED <<text, ended, nonce, kept, decVars>>

\* A read returns as much as it likes; the source decides where chunks end.
ReadSome ==
  /\ enc = "read"
  /\ \E n \in 1..Buffer :
       /\ read + n <= text
       /\ read' = read + n
       /\ chunk' = n
  /\ enc' = "write"
  /\ UNCHANGED <<text, ended, nonce, kept, decVars>>

WriteChunk ==
  /\ enc = "write"
  /\ kept' = Append(kept, chunk)
  /\ chunk' = 0
  /\ enc' = "read"
  /\ UNCHANGED <<text, read, ended, nonce, decVars>>

\* Mutant: the goroutine does not return at the end of its input.
ReadEndGoesOn ==
  /\ enc = "read"
  /\ read = text
  /\ UNCHANGED vars

ReadEnd ==
  /\ enc = "read"
  /\ read = text
  /\ enc' = "done"
  /\ ended' = "eof"
  /\ UNCHANGED <<text, read, chunk, nonce, kept, decVars>>

\* Mutant: the deferred Close comes before CloseWithError.
EncryptFailsQuietly ==
  /\ enc # "done"
  /\ enc' = "done"
  /\ ended' = "eof"
  /\ UNCHANGED <<text, read, chunk, nonce, kept, decVars>>

\* The cipher, the source or the random numbers fail: CloseWithError, and the
\* deferred Close changes nothing any more.
EncryptFails ==
  /\ enc # "done"
  /\ enc' = "done"
  /\ ended' = "error"
  /\ UNCHANGED <<text, read, chunk, nonce, kept, decVars>>

----------------------------------------------------------------------------
\* The goroutine of DecryptReader, over what was kept: all of it, or the part that
\* a crash or a loss left, of which nobody knows that it is a part.  (A chunk cut in
\* two opens no more than two chunks do.)
DecryptBegins ==
  /\ enc = "done" /\ dec = "idle"
  /\ dec' = "read"
  /\ UNCHANGED <<encVars, plain, opened>>

KeptIsCut ==
  /\ enc = "done" /\ dec = "idle"
  /\ \E n \in 0..Len(kept) : kept' = SubSeq(kept, 1, n)
  /\ nonce' = nonce \/ (nonce' = FALSE /\ kept' = <<>>)
  /\ dec' = "read"
  /\ ended' = "error"
  /\ UNCHANGED <<text, read, enc, chunk, plain, opened>>

\* io.ReadFull of the nonce and io.ReadAll of the rest.  Without a whole nonce the
\* first one fails, with io.ErrUnexpectedEOF if there is a part of it.  If there is
\* nothing it is io.EOF, which CloseWithError hands on: the pipe ends like one that
\* an empty text came through.
DecryptReads ==
  /\ dec = "read"
  /\ \/ nonce /\ dec' = "open" /\ UNCHANGED opened
     \/ ~nonce /\ dec' = "done" /\ opened' \in {"eof", "error"}
  /\ UNCHANGED <<encVars, plain>>

\* The cipher, or a read of what was kept, fails.
DecryptReadFails ==
  /\ dec = "read"
  /\ dec' = "done"
  /\ opened' = "error"
  /\ UNCHANGED <<encVars, plain>>

\* aead.Open of all that follows the nonce as one.
Opens == Len(kept) = 1

DecryptOpens ==
  /\ dec = "open"
  /\ IF Opens THEN dec' = "write" /\ UNCHANGED opened
              ELSE dec' = "done" /\ opened' = "refused"
  /\ UNCHANGED <<encVars, plain>>

DecryptWrites ==
  /\ dec = "write"
  /\ dec' = "done"
  /\ plain' = kept[1]
  /\ opened' = "eof"
  /\ UNCHANGED encVars

\* The reader has closed the pipe before it had read everything.
DecryptWriteFails ==
  /\ dec = "write"
  /\ dec' = "done"
  /\ plain' \in 0..kept[1]
  /\ opened' = "error"
  /\ UNCHANGED encVars

Encrypts == WriteNonce \/ ReadSome \/ WriteChunk \/ ReadEnd
Decrypts == DecryptBegins \/ DecryptReads \/ DecryptOpens \/ DecryptWrites
DecryptFails == DecryptReadFails \/ DecryptWriteFails

Next == Encrypts \/ EncryptFails \/ KeptIsCut \/ Decrypts \/ DecryptFails

\* The runtime lets both goroutines go on, their source and their readers answer.
Spec == Init /\ [][Next]_vars /\ WF_vars(Encrypts) /\ WF_vars(Decrypts)

----------------------------------------------------------------------------
(***************************************************************************)
(* Properties.                                                             *)
(***************************************************************************)

\* A decryption that ends well, of a stream whose encryption ended well and of
\* which nothing was cut, yields the whole text: errors on either side reach the
\* reader, and several chunks never open as fewer.
AllOrAnError == ended = "eof" /\ opened = "eof" => plain = text

\* What was encrypted and kept whole can be decrypted: "EncryptReader wraps reader
\* with AES-256-GCM encryption stream", and DecryptReader "reads all remaining bytes -
\* suitable for smaller files" (internal/crypto/encrypt.go).  Errors of the reads and
\* of the pipe aside, aead.Open does not refuse a text that EncryptReader has sealed.
EncryptedComesBack == text > 0 /\ ended = "eof" => opened # "refused"

\* Either goroutine comes to its end.
StreamsEnd == <>(enc = "done") /\ <>(dec = "done")

============================================================================
