--------------------------- MODULE IncidentHistory ---------------------------
(***************************************************************************)
(* What the incident workflow promises for the story of an incident, the   *)
(* evidence and the timeline of one deduplication key: as if each call of  *)
(* record_incident_signals and each decision of an operator happened at    *)
(* one instant, one after the other, in the order of their commits.  There *)
(* are no locks, drafts, screens or revisions here.                        *)
(*                                                                         *)
(* A call is stated by its effect, not signal by signal: of the evidence   *)
(* that is new to an incident the first opens it, if it is not open, and   *)
(* the first critical evidence after that raises it, once.                 *)
(***************************************************************************)
EXTENDS Naturals, Sequences

CONSTANTS Keys, Calls, Operators, Null

VARIABLE story   \* per key, the evidence on record and the timeline

Init == story = [k \in Keys |-> [evidence |-> {}, timeline |-> <<>>]]

Note(action, actor, from, to) ==
    [action |-> action, actor |-> actor, from |-> from, to |-> to]

Status(b) == IF b.timeline = <<>> THEN "absent" ELSE b.timeline[Len(b.timeline)].to
Critical(s) == s.severity = "critical"

(* Where the first n signals of c have evidence for k that b does not have. *)
New(b, c, n, k) ==
    {j \in 1..n : /\ c[j].key = k
                  /\ \A s \in b.evidence : s.id # c[j].id
                  /\ \A i \in 1..(j - 1) : c[i].id # c[j].id}

(* Given new, the positions in c of evidence that the story b does not have: *)
(* an incident that is not open is opened by the first of it,              *)
Opens(b, new) == new # {} /\ Status(b) \in {"absent", "resolved"}

Opening(b, new) ==
    CASE Opens(b, new) /\ Status(b) = "absent" -> <<Note("opened", Null, Null, "open")>>
      [] Opens(b, new) /\ Status(b) = "resolved" -> <<Note("reopened", Null, "resolved", "open")>>
      [] OTHER -> <<>>

(* and one without critical evidence is raised by what is critical later.  *)
Later(b, new) == IF Opens(b, new) THEN {j \in new : \E i \in new : i < j} ELSE new

Raises(b, c, new) ==
    /\ \E j \in Later(b, new) : Critical(c[j])
    /\ \A j \in new \ Later(b, new) : ~Critical(c[j])
    /\ \A s \in b.evidence : ~Critical(s)

Escalation(b, c, new) ==
    LET status == IF Opens(b, new) THEN "open" ELSE Status(b)
    IN IF Raises(b, c, new) THEN <<Note("escalated", Null, status, status)>> ELSE <<>>

(* The story b of k with the first n signals of c. *)
Filed(b, c, n, k) ==
    LET new == New(b, c, n, k)
    IN [evidence |-> b.evidence \cup {c[j] : j \in new},
        timeline |-> b.timeline \o Opening(b, new) \o Escalation(b, c, new)]

Record(c) == story' = [k \in Keys |-> Filed(story[k], c, Len(c), k)]

Decide(o, k, to) ==
    /\ Status(story[k]) \in (IF to = "acknowledged" THEN {"open"} ELSE {"open", "acknowledged"})
    /\ story' = [story EXCEPT ![k].timeline =
                    Append(@, Note(to, o, Status(story[k]), to))]

Next ==
    \/ \E c \in Calls : Record(c)
    \/ \E o \in Operators, k \in Keys, to \in {"acknowledged", "resolved"} : Decide(o, k, to)

Spec == Init /\ [][Next]_story
=============================================================================
