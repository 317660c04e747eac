------------------------------ MODULE JobBoard ------------------------------
(* What the ingestion queue promises its callers, with workers, corpus reads *)
(* and graph extraction left out: a job is submitted, begins, is credited at *)
(* most once with videos nobody else was credited with, and ends, for good.  *)
(* A job that ends in error was credited with nothing, so whatever it did    *)
(* add is still there to be credited to a later job.                         *)
(* IngestionQueue.tla is shown to implement this module.                     *)
EXTENDS FiniteSets

CONSTANTS Jobs,     \* job ids
          Videos    \* video ids

VARIABLES board,    \* board[j]: the status a caller reads for job j
          credit    \* credit[j]: the videos reported as added by job j

vars == <<board, credit>>

Credited == UNION {credit[j] : j \in Jobs}

Init == /\ board = [j \in Jobs |-> "new"]
        /\ credit = [j \in Jobs |-> {}]

Submit(j) == /\ board[j] = "new"
             /\ board' = [board EXCEPT ![j] = "queued"]
             /\ UNCHANGED credit

Begin(j) == /\ board[j] = "queued"
            /\ board' = [board EXCEPT ![j] = "running"]
            /\ UNCHANGED credit

Credit(j, S) == /\ board[j] = "running"
                /\ credit[j] = {}
                /\ S \cap Credited = {}
                /\ credit' = [credit EXCEPT ![j] = S]
                /\ UNCHANGED board

Succeed(j) == /\ board[j] = "running"
              /\ board' = [board EXCEPT ![j] = "done"]
              /\ UNCHANGED credit

Fail(j) == /\ board[j] = "running"
           /\ credit[j] = {}
           /\ board' = [board EXCEPT ![j] = "error"]
           /\ UNCHANGED credit

Next == \E j \in Jobs : \/ Submit(j)
                        \/ Begin(j)
                        \/ \E S \in SUBSET Videos : Credit(j, S)
                        \/ Succeed(j)
                        \/ Fail(j)

Spec == Init /\ [][Next]_vars
=============================================================================
