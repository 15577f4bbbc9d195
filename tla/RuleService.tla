---------------------------- MODULE RuleService -----------------------------
(***************************************************************************)
(* The promise of CompiledRuleSet.Match to its callers: every call returns *)
(* the first match for its own request, however calls overlap.  No cache.  *)
(***************************************************************************)
CONSTANTS
    Callers,    \* goroutines that call Match
    Requests,   \* what they ask for
    Answer(_),  \* the first match for a request
    Nil

VARIABLES
    pending,    \* per caller: the request of its call, or Nil
    answer      \* per caller: what its latest call returned, or Nil

svars == <<pending, answer>>

Init ==
    /\ pending = [c \in Callers |-> Nil]
    /\ answer  = [c \in Callers |-> Nil]

Ask(c, r) ==
    /\ pending[c] = Nil
    /\ pending' = [pending EXCEPT ![c] = r]
    /\ answer'  = [answer EXCEPT ![c] = Nil]

Reply(c) ==
    /\ pending[c] # Nil
    /\ answer'  = [answer EXCEPT ![c] = Answer(pending[c])]
    /\ pending' = [pending EXCEPT ![c] = Nil]

Next == \E c \in Callers : Reply(c) \/ \E r \in Requests : Ask(c, r)

Spec == Init /\ [][Next]_svars

=============================================================================
