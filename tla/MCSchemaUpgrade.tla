--------------------------- MODULE MCSchemaUpgrade ---------------------------
(***************************************************************************)
(* A small instance of SchemaUpgrade for TLC: crashes are bounded, and an  *)
(* upgrade that cannot go on is tried again for ever.                      *)
(***************************************************************************)
EXTENDS SchemaUpgrade

CONSTANT MaxCrashes

VARIABLE crashes

mcvars == <<vars, crashes>>

MCInit == Init /\ crashes = 0

MCNext ==
    \/ \E u \in Upgraders : Crash(u) /\ crashes < MaxCrashes /\ crashes' = crashes + 1
    \/ /\ \/ \E u \in Upgraders : Upgrading(u)
          \/ \E p \in Programs : Start(p) \/ Stop(p)
          \/ \E e \in Events : StoreBare(e) \/ Store(e) \/ Sample(e)
          \/ \E w \in Workers, e \in Events : Working(w, e)
       /\ UNCHANGED crashes

(* Somebody launches or deploys this release until the schema is up to date. *)
MCSpec ==
    /\ MCInit /\ [][MCNext]_mcvars
    /\ WF_mcvars(\E u \in Upgraders : Begin(u, Latest) /\ UNCHANGED crashes)
    /\ \A u \in Upgraders :
          WF_mcvars((CreateTable(u) \/ Backfill(u) \/ Stamp(u)) /\ UNCHANGED crashes)

(* Crashes and upgrades that meet each other cost an attempt, not the      *)
(* database: it comes to the head, unless a migration was interrupted      *)
(* where DDL is not transactional.                                         *)
UpgradeEnds == <>(version = Latest \/ (~transactional /\ crashes > 0 /\ HalfApplied))
=============================================================================
