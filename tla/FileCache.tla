------------------------------ MODULE FileCache ------------------------------
(***************************************************************************)
(* What the two caches of the bot, of question papers and of the attachments *)
(* of notices, promise of a row, whatever their requests, semaphores, polls  *)
(* and locks do: one lease at a time is given to fetch an answer that is     *)
(* missing, only under a lease is an answer stored, and a lease ends.        *)
(***************************************************************************)
CONSTANTS None, Negatives       \* the answers without a file

VARIABLES
    answer,     \* None, a file Telegram takes, one of an old token, a negative answer
    lease       \* "free"; "held"; "lost", once its age allows another one

vars == <<answer, lease>>

Init == answer = None /\ lease = "free"

\* The right to fetch: no answer yet, and nobody has it for sure.
Claim == answer = None /\ lease # "held" /\ lease' = "held" /\ UNCHANGED answer

Expire == lease = "held" /\ lease' = "lost" /\ UNCHANGED answer

\* The lease ends with an answer, or without one.
Settle ==
    /\ lease # "free" /\ lease' = "free"
    /\ answer' \in {None, "good"} \cup Negatives

\* The row is reset: by an administrator, by new facts, by a rejected file.
Forget == answer # None /\ answer' = None /\ UNCHANGED lease

\* A new bot token: the files of the old one are rejected.
Spoil == answer = "good" /\ answer' = "dead" /\ UNCHANGED lease

Next == Claim \/ Expire \/ Settle \/ Forget \/ Spoil

Spec == Init /\ [][Next]_vars

FairSpec == Spec /\ WF_vars(Settle)

=============================================================================
