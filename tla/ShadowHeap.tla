----------------------------- MODULE ShadowHeap -----------------------------
(***************************************************************************)
(* What the oracle promises, without bins, counters, indexes or alert      *)
(* list: each address is an automaton of its own, and the verdict on an    *)
(* event depends only on the automata of the addresses it names.           *)
(***************************************************************************)

CONSTANTS Addr, Null

VARIABLES status, verdict

vars == <<status, verdict>>

Status  == {"unknown", "live", "dead", "misused"}
Verdict == {"fine", "double-free", "invalid-free", "realloc-after-free"}

Init ==
  /\ status = [a \in Addr |-> "unknown"]
  /\ verdict = "fine"

Gone(a) == status[a] \in {"dead", "misused"}

Obtain(a) ==
  /\ status' = [status EXCEPT ![a] = "live"]
  /\ verdict' = "fine"

Release(a) ==
  \/ /\ status[a] = "live"
     /\ status' = [status EXCEPT ![a] = "dead"]
     /\ verdict' = "fine"
  \/ /\ Gone(a)
     /\ status' = [status EXCEPT ![a] = "misused"]
     /\ verdict' = "double-free"
  \/ /\ status[a] = "unknown"
     /\ status' = [status EXCEPT ![a] = "misused"]
     /\ verdict' = "invalid-free"

(* A block moves from p to q, which may be the same address: whatever p    *)
(* was, q is live afterwards.                                              *)
Move(p, q) ==
  \/ /\ status[p] = "live"
     /\ status' = [status EXCEPT ![p] = "dead", ![q] = "live"]
     /\ verdict' = "fine"
  \/ /\ Gone(p)
     /\ status' = [status EXCEPT ![p] = "misused", ![q] = "live"]
     /\ verdict' = "realloc-after-free"
  \/ /\ status[p] = "unknown"
     /\ status' = [status EXCEPT ![q] = "live"]
     /\ verdict' = "fine"

(* A failed allocation, free(NULL), an event of unknown kind. *)
Nothing == verdict' = "fine" /\ UNCHANGED status

Next ==
  \/ \E a \in Addr : Obtain(a) \/ Release(a)
  \/ \E p, q \in Addr : Move(p, q)
  \/ Nothing

Spec == Init /\ [][Next]_vars
=============================================================================
