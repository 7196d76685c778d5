---------------------------- MODULE WorkBatches ----------------------------
(***************************************************************************)
(* What the GPU manager promises to the callers of get_result, without     *)
(* channels, queues or workers: a batch is opened, requests are added to   *)
(* it, each is answered once and in any order, and after the batch has     *)
(* been closed its call returns when nothing is outstanding.               *)
(***************************************************************************)
EXTENDS Naturals

CONSTANTS Batches, MaxRequests, Exclusive

VARIABLES client, sent, outstanding, dropped

vars == <<client, sent, outstanding, dropped>>

Init ==
  /\ client = [b \in Batches |-> "idle"]
  /\ sent = [b \in Batches |-> 0]
  /\ outstanding = [b \in Batches |-> {}]
  /\ dropped = FALSE

Open(b) ==
  /\ client[b] = "idle" /\ ~dropped
  /\ Exclusive => \A c \in Batches : client[c] = "idle"
  /\ client' = [client EXCEPT ![b] = "open"]
  /\ UNCHANGED <<sent, outstanding, dropped>>

Ask(b) ==
  /\ client[b] = "open" /\ sent[b] < MaxRequests
  /\ sent' = [sent EXCEPT ![b] = @ + 1]
  /\ outstanding' = [outstanding EXCEPT ![b] = @ \cup {sent[b] + 1}]
  /\ UNCHANGED <<client, dropped>>

Close(b) ==
  /\ client[b] = "open" /\ sent[b] > 0
  /\ client' = [client EXCEPT ![b] = "closed"]
  /\ UNCHANGED <<sent, outstanding, dropped>>

Answer(b) ==
  /\ \E id \in outstanding[b] : outstanding' = [outstanding EXCEPT ![b] = @ \ {id}]
  /\ UNCHANGED <<client, sent, dropped>>

Return(b) ==
  /\ client[b] = "closed" /\ outstanding[b] = {}
  /\ client' = [client EXCEPT ![b] = "idle"]
  /\ sent' = [sent EXCEPT ![b] = 0]
  /\ UNCHANGED <<outstanding, dropped>>

Drop ==
  /\ ~dropped /\ \A b \in Batches : client[b] = "idle"
  /\ dropped' = TRUE
  /\ UNCHANGED <<client, sent, outstanding>>

Next ==
  \/ \E b \in Batches : Open(b) \/ Ask(b) \/ Close(b) \/ Answer(b) \/ Return(b)
  \/ Drop

Spec == Init /\ [][Next]_vars

\* A closed batch is answered and returned; an open one may be kept waiting.
Fairness ==
  \A b \in Batches :
    /\ WF_vars(client[b] = "closed" /\ Answer(b))
    /\ WF_vars(Return(b))

FairSpec == Spec /\ Fairness

=============================================================================
