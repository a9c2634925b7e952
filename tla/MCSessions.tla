----------------------------- MODULE MCSessions -----------------------------
(***************************************************************************)
(* What a start may find: little more than nothing; production in S3 with  *)
(* a secret of its own; the same but for the secret, which was forgotten;  *)
(* the secret with a database of its own, while the file's is blank and    *)
(* the first variable's is overruled; the database's URL blank in the      *)
(* variable, or in the file; and a file that is no YAML.                   *)
(***************************************************************************)
EXTENDS Sessions

CONSTANTS url1, url2, s1, s2

Plain == [parses |-> TRUE, fileDatabase |-> Unset, fileStorage |-> Unset,
          DBBACK_DATABASE_URL |-> Unset, DATABASE_URL |-> Unset,
          DBBACK_STORAGE_TYPE |-> Unset, DBBACK_ENV |-> Unset,
          DBBACK_AUTH_SECRET |-> Unset]

Production == [Plain EXCEPT !.DBBACK_ENV = "production", !.DBBACK_STORAGE_TYPE = "s3",
                            !.DBBACK_AUTH_SECRET = s2]

MCEnvironments ==
  {[Plain EXCEPT !.fileStorage = "s3"], Production,
   [Production EXCEPT !.DBBACK_AUTH_SECRET = Unset],
   [Plain EXCEPT !.fileDatabase = Blank, !.DBBACK_DATABASE_URL = url1,
                 !.DATABASE_URL = url2, !.DBBACK_AUTH_SECRET = s2],
   [Production EXCEPT !.DBBACK_DATABASE_URL = url1, !.DATABASE_URL = Blank],
   [Plain EXCEPT !.fileDatabase = Blank],
   [Plain EXCEPT !.parses = FALSE]}

============================================================================
