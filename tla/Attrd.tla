------------------------------- MODULE Attrd -------------------------------
(***************************************************************************)
(* The daemon as main.rs runs it: the run loop and the decay scheduler are *)
(* two futures of one tokio::select! on one thread. They share no memory,  *)
(* only the database, and either may run whenever the other awaits a       *)
(* statement. The operator's `satan-attrd rebuild` is a second process.    *)
(***************************************************************************)
EXTENDS RunLoop, Decay

CONSTANTS MaxRebuilds    \* bound: rebuilds the operator starts

ASSUME AttrdAssumption == MaxRebuilds \in Nat

VARIABLES
  rebuilt,      \* what the open rebuild transaction will commit, or NoRebuild
  rebuilds,     \* what the bound counts
  overlapped    \* history: two writers have been at work at the same time

NoRebuild == <<>>

loopOnlyVars == <<brokerVars, queueVars, procVars, rejected, strays, lost, histVars>>
rebuildVars  == <<rebuilt, rebuilds>>
attrdVars    == <<vars, decayVars, rebuildVars, overlapped>>

AttrdInit ==
  /\ LoopInit
  /\ last_decay_at = [n \in Attrs |-> 0]    \* migration 0011
  /\ updates_enabled = TRUE /\ toggles = 0 /\ setbacks = 0
  /\ SchedulerInit
  /\ rebuilt = NoRebuild /\ rebuilds = 0
  /\ overlapped = FALSE

(***************************************************************************)
(* The type invariant of the whole daemon: both components keep theirs     *)
(* while the other one and a rebuild write the tables they share, and a    *)
(* rebuild leaves a value in range for every attribute.                    *)
(***************************************************************************)
AttrdTypeOK ==
  /\ LoopTypeOK
  /\ DecayTypeOK
  /\ rebuilt \in [Attrs -> Value] \cup {NoRebuild}
  /\ rebuilds \in Nat /\ overlapped \in BOOLEAN

\* The rebuild transaction holds the lock of every satan_attributes row.
RowsLocked == rebuilt # NoRebuild

\* A writer is at work from its read of the projection to its last write.
LoopAtWork  == pc \in {"prior", "insert", "upsert", "audit", "audit_notify"}
DecayAtWork == decay_pc \in {"counter", "insert", "upsert", "audit", "audit_notify", "bump"}
TwoAtWork   == \/ LoopAtWork /\ DecayAtWork
               \/ RowsLocked /\ (LoopAtWork \/ DecayAtWork)

Observe == overlapped' = (overlapped \/ TwoAtWork')

-----------------------------------------------------------------------------
(***************************************************************************)
(* The process: both futures start together and die together.              *)
(***************************************************************************)
run_loop_subcommand ==
  Start /\ SchedulerStarts /\ UNCHANGED rebuildVars /\ Observe

ProcessDies ==
  /\ LoopDies /\ SchedulerDies
  /\ crashes < MaxCrashes
  /\ crashes' = crashes + 1
  /\ UNCHANGED <<faults, storeVars, brokerVars, rejected, strays, lost, histVars,
                 last_decay_at, settingVars, rebuildVars>>
  /\ Observe

LoopSteps ==
  /\ Loop \/ Unreliable
  /\ RowsLocked => UNCHANGED attributes
  /\ UNCHANGED <<decayVars, rebuildVars>>
  /\ Observe

SchedulerSteps ==
  /\ Scheduler \/ TickFails
  /\ RowsLocked => UNCHANGED <<attributes, last_decay_at>>
  /\ UNCHANGED <<loopOnlyVars, rebuildVars>>
  /\ Observe

\* The broker stamps its switch on every payload and stores each toggle.
EnvironmentSteps ==
  /\ \/ /\ \/ \E p \in Payloads : p.enabled = updates_enabled /\ BrokerInsert(p)
           \/ \E id \in Ids : BrokerNotify(id)
           \/ \E a \in DOMAIN audit_inbox : BrokerReject(a)
           \/ TimePasses
        /\ UNCHANGED decayVars
     \/ /\ \E b \in BOOLEAN : set_setting_bool(b)
        /\ UNCHANGED loopOnlyVars
  /\ UNCHANGED rebuildVars
  /\ Observe

(***************************************************************************)
(* rebuild_projection, one transaction: zero the rows (and lock them),     *)
(* read the log, write the rows; all of it visible at COMMIT.              *)
(***************************************************************************)
RebuildReads ==
  /\ rebuilt = NoRebuild
  /\ rebuilds < MaxRebuilds
  /\ rebuilds' = rebuilds + 1
  /\ \E include_disabled \in BOOLEAN : rebuilt' = rebuild_projection(include_disabled)
  /\ UNCHANGED <<vars, decayVars>>
  /\ Observe

\* Mutant: only the attributes of the log are written back.
RebuildDropsRows ==
  /\ rebuilt # NoRebuild
  /\ attributes' = Restrict(rebuilt, {e.name : e \in events})
  /\ last_decay_at' = [n \in Attrs |-> Never]
  /\ rebuilt' = NoRebuild
  /\ UNCHANGED <<faults, crashes, clock, events, audit_inbox, loopOnlyVars,
                 settingVars, schedVars, rebuilds>>
  /\ Observe

RebuildCommits ==
  /\ rebuilt # NoRebuild
  /\ attributes' = rebuilt
  /\ last_decay_at' = [n \in Attrs |-> Never]
  /\ rebuilt' = NoRebuild
  /\ UNCHANGED <<faults, crashes, clock, events, audit_inbox, loopOnlyVars,
                 settingVars, schedVars, rebuilds>>
  /\ Observe

AttrdNext ==
  \/ run_loop_subcommand \/ ProcessDies
  \/ LoopSteps \/ SchedulerSteps \/ EnvironmentSteps
  \/ RebuildReads \/ RebuildCommits

AttrdSpec == AttrdInit /\ [][AttrdNext]_attrdVars

-----------------------------------------------------------------------------
(***************************************************************************)
(* Properties                                                              *)
(***************************************************************************)

(***************************************************************************)
(* The value each writer read is still the projection when it writes, as   *)
(* long as no two writers have ever been at work at the same time: the run *)
(* loop, the decay tick and rebuild disturb each other only by overlapping.*)
(***************************************************************************)
CoherentUnlessOverlapped ==
  ~overlapped =>
    /\ SnapshotCoherent
    /\ DecayAtWork => \A n \in due : tick_values[n] = attributes[n]

(***************************************************************************)
(* Attributes outside DECAY_TARGETS are safe even when the run loop and    *)
(* the decay tick overlap: what their events record as old is what the     *)
(* projection holds, and the projection is the sum of the logged deltas    *)
(* (checked where nothing fails and nobody rebuilds).                      *)
(***************************************************************************)
NonTargetsCoherent ==
  \A n \in Attrs \ DECAY_TARGETS :
    /\ rebuilds = 0 /\ faults + crashes = 0 =>
         attributes[n] = net_delta(n) \/ (pc = "upsert" /\ first(n))
    /\ rebuilds = 0 /\ n \in DOMAIN pending =>
         \/ pending[n].old_value = attributes[n]
         \/ pc \in {"audit", "audit_notify"} /\ first(n)

(***************************************************************************)
(* The two seq allocators, the run loop's and the scheduler's, never       *)
(* collide with each other or with the log while the process lives.        *)
(***************************************************************************)
NoWriterIsRefused == (crashes = 0 => InsertIsAccepted) /\ DecayNeverCollides

(***************************************************************************)
(* Beyond failures only a rebuild makes a row decay early: it clears every *)
(* last_decay_at, once per target.                                         *)
(***************************************************************************)
EarlyDecayNeedsRebuild ==
  Cardinality(double_decays)
    <= faults + crashes + rebuilds * Cardinality(DECAY_TARGETS)

(***************************************************************************)
(* store.rs: "the projection must be derivable from the event log alone".  *)
(* When no writer is at work, the log replayed in the order of rebuild     *)
(* gives the projection, even if no two writers ever overlapped.           *)
(***************************************************************************)
ReplayIsProjectionAtRest ==
  ~overlapped /\ ~LoopAtWork /\ ~DecayAtWork => rebuild_projection(FALSE) = attributes
=============================================================================
