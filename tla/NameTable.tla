------------------------------ MODULE NameTable ------------------------------
(***************************************************************************)
(* What the file directory of a database promises: a table from file names *)
(* to start pages, with one entry at most for a name.  FileDirectory       *)
(* implements it until there is `trouble': a header page whose entries are *)
(* lost or never were, or a lookup that failed and was taken for a "no".   *)
(***************************************************************************)
EXTENDS Integers

CONSTANTS Names, StartPages

VARIABLES files,            \* the table
          busy,             \* a call is under way
          trouble,          \* from here on nothing is promised
          op, name, page,   \* the call and its arguments
          status, result    \* what it answered

vars == <<files, busy, trouble, op, name, page, status, result>>

Init == /\ DOMAIN files = {} /\ busy = FALSE /\ trouble = FALSE
        /\ op = "none" /\ name \in Names /\ page \in StartPages
        /\ status = "OK" /\ result \in StartPages

Ask == /\ ~busy /\ busy'
       /\ op' \in {"AddFileEntry", "DeleteFileEntry", "GetFileEntry"}
       /\ name' \in Names /\ page' \in StartPages
       /\ result' \in StartPages /\ status' = "none"
       /\ UNCHANGED <<files, trouble>>

Add == /\ op = "AddFileEntry" /\ status' = "OK"
       /\ name \notin DOMAIN files
       /\ files' = [n \in DOMAIN files \cup {name} |->
                       IF n = name THEN page ELSE files[n]]
       /\ UNCHANGED result

Delete == /\ op = "DeleteFileEntry" /\ status' = "OK"
          /\ name \in DOMAIN files
          /\ files' = [n \in DOMAIN files \ {name} |-> files[n]]
          /\ UNCHANGED result

Get == /\ op = "GetFileEntry" /\ status' = "OK"
       /\ name \in DOMAIN files /\ result' = files[name]
       /\ UNCHANGED files

\* A lookup fails only if the name is not there, an addition is called a
\* duplicate only if it is; the other errors may be met at any time.
Fail == /\ \/ status' = "DUPLICATE_ENTRY" /\ op = "AddFileEntry"
                                          /\ name \in DOMAIN files
           \/ status' = "FAIL" /\ op = "GetFileEntry" /\ name \notin DOMAIN files
           \/ status' = "FILE_NOT_FOUND" /\ op = "DeleteFileEntry"
                                         /\ name \notin DOMAIN files
           \/ status' \in {"FILE_NAME_TOO_LONG", "BAD_PAGE_NO", "DB_FULL"}
                /\ op = "AddFileEntry"
           \/ status' = "PIN_REFUSED"
        /\ UNCHANGED <<files, result>>

Answer == /\ busy /\ ~busy'
          /\ Add \/ Delete \/ Get \/ Fail
          /\ name' \in Names /\ page' \in StartPages /\ UNCHANGED trouble

Spec == Init /\ [][Ask \/ Answer \/ trouble']_vars
=============================================================================
