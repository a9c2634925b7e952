------------------------ MODULE CryptoStream_proofs ------------------------
(***************************************************************************)
(* Proofs about CryptoStream, for texts and buffers of any size: its type  *)
(* invariant, and that what is decrypted without an error is the whole     *)
(* text.  They rest on WriterInv, that as long as it has kept one chunk    *)
(* only, the reader has kept all that was read; how many blocks more       *)
(* chunks add up to plays no part.                                         *)
(***************************************************************************)
EXTENDS CryptoStream, SequenceTheorems, TLAPS

----------------------------------------------------------------------------
(* The inductive invariant.                                                *)

Pending == IF enc = "write" THEN chunk ELSE 0

\* Between an encryptor that no error has ended and its reader nothing is lost.
WriterInv ==
  /\ enc = "write" => chunk \in 1..Buffer
  /\ enc # "done" => Len(kept) + Pending <= read
  /\ enc # "done" \/ ended = "eof" =>
       /\ enc # "nonce" => nonce
       /\ kept = <<>> => read = Pending
       /\ Len(kept) = 1 => read = kept[1] + Pending
  /\ ended = "eof" => enc = "done" /\ read = text

\* What comes to a good end is what the only chunk holds, or there was no nonce.
ReaderInv ==
  /\ \A i \in 1..Len(kept) : kept[i] <= text
  /\ dec # "idle" => enc = "done"
  /\ dec # "done" => opened = "open"
  /\ dec = "write" => Opens
  /\ dec = "done" /\ opened = "eof" => ~nonce \/ (Opens /\ plain = kept[1])

IInv == TypeOK /\ WriterInv /\ ReaderInv

----------------------------------------------------------------------------
LEMMA Initially == Init => IInv
<1> SUFFICES ASSUME Init PROVE IInv
  OBVIOUS
<1>1. text \in Nat /\ text <= MaxText /\ kept \in Seq(1..Buffer) /\ Len(kept) = 0
  BY CryptoAssumption DEF Init
<1>2. TypeOK
  <2>1. 0 \in 0..MaxText /\ 0 \in 0..text /\ 0 \in 0..Buffer
    BY <1>1, CryptoAssumption
  <2>2. text \in 0..MaxText /\ read \in 0..text /\ plain \in 0..text /\ chunk \in 0..Buffer
    BY <2>1 DEF Init
  <2>3. kept \in Seq(1..Buffer) /\ Len(kept) <= text
    BY <1>1
  <2>4. {ended, opened} \subseteq Ends /\ nonce \in BOOLEAN
    BY DEF Init, Ends
  <2> QED BY <2>2, <2>3, <2>4 DEF Init, TypeOK
<1>3. WriterInv
  BY <1>1 DEF Init, WriterInv, Pending
<1>4. ReaderInv
  BY <1>1 DEF Init, ReaderInv
<1> QED BY <1>2, <1>3, <1>4 DEF IInv

LEMMA KeptType ==
  ASSUME TypeOK, NEW i \in 1..Len(kept)
  PROVE  kept[i] \in 1..Buffer
<1>1. kept \in Seq(1..Buffer)
  BY DEF TypeOK
<1> QED BY <1>1, ElementOfSeq

\* The steps of the encryptor; the decryptor has not begun.
LEMMA EncryptStep ==
  ASSUME IInv, Encrypts \/ EncryptFails
  PROVE  IInv'
<1> USE CryptoAssumption DEF IInv, TypeOK, Ends, encVars, decVars
<1>1. CASE WriteNonce
  BY <1>1 DEF WriteNonce, WriterInv, ReaderInv, Opens, Pending
<1>2. CASE ReadSome
  BY <1>2 DEF ReadSome, WriterInv, ReaderInv, Opens, Pending
<1>3. CASE WriteChunk
  <2>1. chunk \in 1..Buffer /\ Len(kept) + chunk <= read
    BY <1>3 DEF WriteChunk, WriterInv, Pending
  <2>2. /\ kept' \in Seq(1..Buffer) /\ Len(kept') = Len(kept) + 1
        /\ kept'[Len(kept) + 1] = chunk
        /\ \A i \in 1..Len(kept) : kept'[i] = kept[i]
    BY <1>3, <2>1 DEF WriteChunk
  <2>3. Len(kept') <= read /\ kept' # <<>>
    BY <2>1, <2>2
  <2>4. TypeOK'
    BY <1>3, <2>2, <2>3 DEF WriteChunk
  <2>5. WriterInv'
    <3>1. Len(kept') = 1 => read = kept'[1]
      <4>1. Len(kept') = 1 => kept = <<>>
        BY <2>2
      <4> QED BY <1>3, <2>2, <4>1 DEF WriteChunk, WriterInv, Pending
    <3> QED BY <1>3, <2>3, <3>1 DEF WriteChunk, WriterInv, Pending
  <2>6. ReaderInv'
    <3>1. ASSUME NEW i \in 1..Len(kept') PROVE kept'[i] <= text
      <4>1. CASE i = Len(kept) + 1
        <5>1. kept'[i] = chunk /\ chunk <= read
          BY <2>1, <2>2, <4>1
        <5> QED BY <2>1, <5>1
      <4>2. CASE i # Len(kept) + 1
        <5>1. i \in 1..Len(kept)
          BY <2>2, <4>2
        <5> QED BY <2>2, <5>1 DEF ReaderInv
      <4> QED BY <4>1, <4>2
    <3> QED BY <1>3, <3>1 DEF WriteChunk, ReaderInv
  <2> QED BY <2>4, <2>5, <2>6
<1>4. CASE ReadEnd
  BY <1>4 DEF ReadEnd, WriterInv, ReaderInv, Opens, Pending
<1>5. CASE EncryptFails
  BY <1>5 DEF EncryptFails, WriterInv, ReaderInv, Opens, Pending
<1> QED BY <1>1, <1>2, <1>3, <1>4, <1>5 DEF Encrypts

\* What is kept is cut before it is decrypted.
LEMMA CutStep ==
  ASSUME IInv, KeptIsCut
  PROVE  IInv'
<1> USE DEF IInv, TypeOK, Ends
<1>1. PICK n \in 0..Len(kept) : kept' = SubSeq(kept, 1, n)
  BY DEF KeptIsCut
<1>2. /\ kept' \in Seq(1..Buffer) /\ Len(kept') = n
      /\ \A i \in 1..n : kept'[i] = kept[i]
  <2>1. \A i \in 1..n : kept[i] \in 1..Buffer
    BY KeptType
  <2>2. n \in Nat
    OBVIOUS
  <2> HIDE DEF IInv, TypeOK
  <2>3. /\ SubSeq(kept, 1, n) \in Seq(1..Buffer)
        /\ Len(SubSeq(kept, 1, n)) = IF 1 <= n THEN n - 1 + 1 ELSE 0
        /\ \A i \in 1..(n - 1 + 1) : SubSeq(kept, 1, n)[i] = kept[1 + i - 1]
    BY <2>1, <2>2, SubSeqProperties
  <2> QED BY <1>1, <2>2, <2>3
<1>3. TypeOK'
  <2>1. Len(kept') <= text
    BY <1>2
  <2>2. nonce' \in BOOLEAN
    BY DEF KeptIsCut
  <2> QED BY <1>2, <2>1, <2>2 DEF KeptIsCut
<1>4. WriterInv'
  BY DEF KeptIsCut, WriterInv
<1>5. ReaderInv'
  BY <1>2 DEF KeptIsCut, ReaderInv
<1> QED BY <1>3, <1>4, <1>5

\* The steps of the decryptor; what is kept stays as it is.
LEMMA DecryptStep ==
  ASSUME IInv, Decrypts \/ DecryptFails
  PROVE  IInv'
<1> USE DEF IInv, TypeOK, Ends, encVars
<1>1. CASE DecryptBegins
  BY <1>1 DEF DecryptBegins, WriterInv, ReaderInv, Opens, Pending
<1>2. CASE DecryptReads \/ DecryptReadFails \/ DecryptOpens
  BY <1>2 DEF DecryptReads, DecryptReadFails, DecryptOpens, WriterInv, ReaderInv, Opens, Pending
<1>3. CASE DecryptWrites \/ DecryptWriteFails
  <2>1. 1 \in 1..Len(kept) /\ kept[1] <= text
    BY <1>3 DEF DecryptWrites, DecryptWriteFails, ReaderInv, Opens
  <2>2. kept[1] \in Nat
    <3>1. kept[1] \in 1..Buffer
      BY <2>1, KeptType
    <3> QED BY <3>1, CryptoAssumption
  <2>3. kept[1] \in 0..text /\ \A n \in 0..kept[1] : n \in 0..text
    BY <2>1, <2>2
  <2>4. plain' \in 0..text
    BY <1>3, <2>3 DEF DecryptWrites, DecryptWriteFails
  <2>5. TypeOK'
    BY <1>3, <2>4 DEF DecryptWrites, DecryptWriteFails
  <2> QED
    BY <1>3, <2>5 DEF DecryptWrites, DecryptWriteFails, WriterInv, ReaderInv, Opens, Pending
<1> QED BY <1>1, <1>2, <1>3 DEF Decrypts, DecryptFails

LEMMA Inductive == IInv /\ [Next]_vars => IInv'
<1> SUFFICES ASSUME IInv, [Next]_vars PROVE IInv'
  OBVIOUS
<1>1. CASE UNCHANGED vars
  BY <1>1 DEF vars, encVars, decVars, IInv, TypeOK, WriterInv, ReaderInv, Opens, Pending
<1> QED BY <1>1, EncryptStep, CutStep, DecryptStep DEF Next

\* The inductive invariant holds in every state of CryptoStream.
THEOREM Invariance == Spec => []IInv
BY Initially, Inductive, PTL DEF Spec

\* Every variable of CryptoStream has its type.
THEOREM TypeCorrect == Spec => []TypeOK
BY Invariance, PTL DEF IInv

\* A decryption that ends well of a stream that was encrypted well and kept
\* whole yields the whole text (EncryptReader, DecryptReader).
THEOREM WholeOrError == Spec => []AllOrAnError
<1>1. IInv => AllOrAnError
  <2> SUFFICES ASSUME IInv, ended = "eof", opened = "eof" PROVE plain = text
    BY DEF AllOrAnError
  <2>1. enc = "done" /\ read = text /\ nonce
    BY DEF IInv, WriterInv
  <2>2. Len(kept) = 1 /\ plain = kept[1]
    <3>1. dec = "done"
      BY DEF IInv, ReaderInv
    <3> QED BY <2>1, <3>1 DEF IInv, ReaderInv, Opens
  <2>3. read = kept[1] /\ kept[1] \in Nat
    BY <2>1, <2>2 DEF IInv, TypeOK, WriterInv, Pending
  <2> QED BY <2>1, <2>2, <2>3
<1> QED BY <1>1, Invariance, PTL

============================================================================
