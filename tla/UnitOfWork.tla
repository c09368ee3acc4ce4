----------------------------- MODULE UnitOfWork -----------------------------
(***************************************************************************)
(* SqlAlchemyUnitOfWork and the tenant-scoped repositories: concurrent     *)
(* units of work over one PostgreSQL database.  The database is what is    *)
(* committed (version, content, events, the reservations, the nonces);     *)
(* each unit keeps its uncommitted writes, the Python objects that survive *)
(* a rollback (the transition keys) and the copies its caller holds.       *)
(*                                                                         *)
(* One tenant is modelled.  An uncommitted row blocks the other units, as  *)
(* PostgreSQL does: a statement that must wait is an action that is not    *)
(* enabled yet.  The content of an aggregate is the set of transitions its *)
(* snapshot was computed from: a caller changes the copy it loaded.        *)
(***************************************************************************)
EXTENDS Naturals, FiniteSets

CONSTANTS
    Units,          \* units of work, each with the command of its caller
    Aggregates,     \* rows of aggregate_records
    Keys,           \* idempotency keys of one operation
    Nonces,         \* single-use links
    Answers,        \* response payloads a caller may store
    KeyOf,          \* [Units -> Keys], the key of the command
    Prints,         \* fingerprints of the payloads a command may have
    Faulty,         \* units whose caller may hand append an event it refuses
    MaxVersion,     \* bound: highest version an aggregate reaches
    MaxRollbacks    \* bound: calls of rollback() in one unit

ASSUME UnitOfWorkAssumption ==
    /\ KeyOf \in [Units -> Keys]
    /\ MaxVersion \in Nat \ {0} /\ MaxRollbacks \in Nat

CONSTANT NoAnswer   \* no response payload, no fingerprint, no unit
ASSUME NoAnswerAssumption == NoAnswer \notin Answers \cup Prints \cup Units

VARIABLES
    version,    \* committed version of an aggregate, 0 for no row
    content,    \* committed snapshot: the transitions it reflects
    events,     \* committed audit events with an aggregate version
    keyStatus,  \* committed reservation: "None", "PENDING" or "COMPLETED"
    keyPrint,   \* its fingerprint
    keyAnswer,  \* its response payload
    consumed,   \* committed nonces
    phase,      \* of a unit: "New", "Open", "Aborted", "Committed", "Left"
    held,       \* version of the copy the caller of a unit holds, 0 for none
    image,      \* content of that copy
    wrote,      \* version a unit has written and not committed, 0 for none
    draft,      \* content it has written
    staged,     \* events it has inserted
    lost,       \* history: events it has counted that no row stands for
    saved,      \* saved_transition_keys of the unit's repository
    appended,   \* appended_transition_keys of the unit's repository
    print,      \* fingerprint of the unit's command
    claim,      \* own reservation: "None", "PENDING", "COMPLETED"
    answer,     \* response payload it has stored
    taken,      \* nonces it has inserted
    rollbacks,  \* calls of rollback() so far
    done,       \* history: the transitions that were committed
    told,       \* history: response payloads the caller was given
    granted,    \* history: nonces the caller was told it consumed
    claimants   \* history: the units that committed a reservation of a key

database == <<version, content, events, keyStatus, keyPrint, keyAnswer, consumed>>
copies == <<held, image>>
rows == <<wrote, draft, staged, lost>>
transitionKeys == <<saved, appended>>
reservation == <<print, claim, answer, told>>
links == <<taken, granted>>
history == <<done, claimants>>
vars == <<database, phase, copies, rows, transitionKeys, reservation, links,
          rollbacks, history>>

Statuses == {"None", "PENDING", "COMPLETED"}
Phases == {"New", "Open", "Aborted", "Committed", "Left"}
Versions == 0..MaxVersion

\* A transition: the unit that computed the snapshot of that version; what was
\* there at first nobody of them did.
Transition == [to: Versions, by: Units \cup {NoAnswer}]

\* Type correctness: the committed rows and what each unit of work keeps.
TypeOK ==
    /\ version \in [Aggregates -> Versions]
    /\ content \in [Aggregates -> SUBSET Transition]
    /\ events \subseteq (Aggregates \X Versions)
    /\ keyStatus \in [Keys -> Statuses]
    /\ keyPrint \in [Keys -> Prints \cup {NoAnswer}]
    /\ keyAnswer \in [Keys -> Answers \cup {NoAnswer}]
    /\ consumed \subseteq Nonces
    /\ phase \in [Units -> Phases]
    /\ held \in [Units -> [Aggregates -> Versions]]
    /\ image \in [Units -> [Aggregates -> SUBSET Transition]]
    /\ wrote \in [Units -> [Aggregates -> Versions]]
    /\ draft \in [Units -> [Aggregates -> SUBSET Transition]]
    /\ staged \in [Units -> SUBSET (Aggregates \X Versions)]
    /\ lost \in [Units -> SUBSET (Aggregates \X Versions)]
    /\ saved \in [Units -> SUBSET (Aggregates \X Versions)]
    /\ appended \in [Units -> SUBSET (Aggregates \X Versions)]
    /\ print \in [Units -> Prints \cup {NoAnswer}]
    /\ claim \in [Units -> Statuses]
    /\ answer \in [Units -> Answers \cup {NoAnswer}]
    /\ taken \in [Units -> SUBSET Nonces]
    /\ rollbacks \in [Units -> 0..MaxRollbacks]
    /\ done \in [Aggregates -> SUBSET Transition]
    /\ told \in [Units -> SUBSET (Answers \cup {NoAnswer})]
    /\ granted \in [Units -> SUBSET Nonces]
    /\ claimants \in [Keys -> SUBSET Units]

\* Some aggregates exist, at version 1.
Init ==
    /\ version \in [Aggregates -> {0, 1}]
    /\ content = [a \in Aggregates |->
                    {[to |-> v, by |-> NoAnswer] : v \in {1} \cap {version[a]}}]
    /\ events = {}
    /\ keyStatus = [k \in Keys |-> "None"]
    /\ keyPrint = [k \in Keys |-> NoAnswer]
    /\ keyAnswer = [k \in Keys |-> NoAnswer]
    /\ consumed = {}
    /\ phase = [u \in Units |-> "New"]
    /\ held = [u \in Units |-> [a \in Aggregates |-> 0]]
    /\ image = [u \in Units |-> [a \in Aggregates |-> {}]]
    /\ wrote = [u \in Units |-> [a \in Aggregates |-> 0]]
    /\ draft = [u \in Units |-> [a \in Aggregates |-> {}]]
    /\ staged = [u \in Units |-> {}]
    /\ lost = [u \in Units |-> {}]
    /\ saved = [u \in Units |-> {}]
    /\ appended = [u \in Units |-> {}]
    /\ print = [u \in Units |-> NoAnswer]
    /\ claim = [u \in Units |-> "None"]
    /\ answer = [u \in Units |-> NoAnswer]
    /\ taken = [u \in Units |-> {}]
    /\ rollbacks = [u \in Units |-> 0]
    /\ done = content
    /\ told = [u \in Units |-> {}]
    /\ granted = [u \in Units |-> {}]
    /\ claimants = [k \in Keys |-> {}]
-----------------------------------------------------------------------------
(***************************************************************************)
(* What a unit sees and what blocks it                                     *)
(***************************************************************************)

\* The version a unit reads: its own write, else the committed one.
Visible(u, a) == IF wrote[u][a] # 0 THEN wrote[u][a] ELSE version[a]

VisibleContent(u, a) == IF wrote[u][a] # 0 THEN draft[u][a] ELSE content[a]

\* The row is locked by the uncommitted write of another unit.
RowLocked(u, a) == \E v \in Units \ {u} : wrote[v][a] # 0

\* Mutant: reserve looks the key up instead of inserting it.
KeyLocked_Lookup(u) == FALSE

\* The key was inserted by another transaction that is still open.
KeyLocked(u) == \E v \in Units \ {u} : KeyOf[v] = KeyOf[u] /\ claim[v] # "None"

\* Mutant: consume looks the nonce up instead of inserting it.
NonceLocked_Lookup(u, n) == FALSE

\* The nonce was inserted by another transaction that is still open.
NonceLocked(u, n) == \E v \in Units \ {u} : n \in taken[v]
-----------------------------------------------------------------------------
(***************************************************************************)
(* The aggregates and their audit trail                                    *)
(***************************************************************************)

\* __aenter__: a session and fresh repositories, for a command with its payload.
Enter(u) ==
    /\ phase[u] = "New"
    /\ phase' = [phase EXCEPT ![u] = "Open"]
    /\ \E p \in Prints : print' = [print EXCEPT ![u] = p]
    /\ UNCHANGED <<database, copies, rows, transitionKeys, claim, answer, told,
                   links, rollbacks, history>>

\* aggregates.get: the caller's copy of the row (a copy the session still
\* caches is the one the caller already holds).
Get(u, a) ==
    /\ phase[u] = "Open"
    /\ Visible(u, a) # 0
    /\ held' = [held EXCEPT ![u][a] = Visible(u, a)]
    /\ image' = [image EXCEPT ![u][a] = VisibleContent(u, a)]
    /\ UNCHANGED <<database, phase, rows, transitionKeys, reservation, links,
                   rollbacks, history>>

\* aggregates.add of a new row: it starts at version 1; nothing is recorded
\* in the transition keys.
Add(u, a) ==
    /\ phase[u] = "Open"
    /\ ~RowLocked(u, a)
    /\ Visible(u, a) = 0
    /\ MaxVersion >= 1
    /\ wrote' = [wrote EXCEPT ![u][a] = 1]
    /\ draft' = [draft EXCEPT ![u][a] = {[to |-> 1, by |-> u]}]
    /\ held' = [held EXCEPT ![u][a] = 1]
    /\ image' = [image EXCEPT ![u][a] = {[to |-> 1, by |-> u]}]
    /\ UNCHANGED <<database, phase, staged, lost, transitionKeys, reservation,
                   links, rollbacks, history>>

\* aggregates.add of a row that exists: the flush fails on the primary key
\* and the transaction can only be rolled back.
AddExisting(u, a) ==
    /\ phase[u] = "Open"
    /\ ~RowLocked(u, a)
    /\ Visible(u, a) # 0
    /\ phase' = [phase EXCEPT ![u] = "Aborted"]
    /\ UNCHANGED <<database, copies, rows, transitionKeys, reservation, links,
                   rollbacks, history>>

\* Mutant: the UPDATE does not compare the version.
ExpectedVersion_Blind(u, a) == Visible(u, a) # 0

\* The UPDATE of save changes the row only where its version is still the one
\* of the caller's copy.
ExpectedVersion(u, a) == Visible(u, a) = held[u][a]

\* aggregates.save: UPDATE ... WHERE version = expected_version.
UpdateRow(u, a) ==
    LET next == held[u][a] + 1
    IN /\ phase[u] = "Open"
       /\ held[u][a] \in 1..(MaxVersion - 1)
       /\ ExpectedVersion(u, a)
       /\ ~RowLocked(u, a)
       /\ wrote' = [wrote EXCEPT ![u][a] = next]
       /\ draft' = [draft EXCEPT ![u][a] = image[u][a] \cup {[to |-> next, by |-> u]}]
       /\ saved' = [saved EXCEPT ![u] = @ \cup {<<a, next>>}]

\* The record that is returned replaces the caller's copy.
Save(u, a) ==
    LET next == held[u][a] + 1
    IN /\ UpdateRow(u, a)
       /\ held' = [held EXCEPT ![u][a] = next]
       /\ image' = [image EXCEPT ![u][a] = @ \cup {[to |-> next, by |-> u]}]

\* A caller that saves and appends the event itself, in two calls.
SaveOnly(u, a) ==
    /\ Save(u, a)
    /\ UNCHANGED <<database, phase, staged, lost, appended, reservation, links,
                   rollbacks, history>>

\* audit.append counts an event before it converts its time and inserts it.
Count(u, entry) == appended' = [appended EXCEPT ![u] = @ \cup {entry}]

RecordEvent(u, entry) ==
    /\ Count(u, entry)
    /\ staged' = [staged EXCEPT ![u] = @ \cup {entry}]
    /\ UNCHANGED <<lost, phase>>

\* An event that was counted and is not recorded: its time has no time zone,
\* which raises and leaves the transaction as it is; or the database refuses the
\* row, and the transaction can only be rolled back.
RefuseEvent(u, entry) ==
    /\ u \in Faulty
    /\ Count(u, entry)
    /\ lost' = [lost EXCEPT ![u] = @ \cup {entry}]
    /\ phase' \in {phase, [phase EXCEPT ![u] = "Aborted"]}
    /\ UNCHANGED staged

\* save_transition: the event has the version of the row that was saved.
SaveTransition(u, a) ==
    /\ Save(u, a)
    /\ RecordEvent(u, <<a, held[u][a] + 1>>)
    /\ UNCHANGED <<database, reservation, links, rollbacks, history>>

\* save_transition whose event append refuses, for its payload before it is
\* counted: the row is saved and the caller has an error instead of a copy.
SaveTransitionFails(u, a) ==
    /\ u \in Faulty
    /\ UpdateRow(u, a)
    /\ \/ RefuseEvent(u, <<a, held[u][a] + 1>>)
       \/ UNCHANGED <<appended, lost, phase, staged>>
    /\ UNCHANGED <<database, copies, reservation, links, rollbacks, history>>

\* save of a copy that another unit has overtaken: OptimisticLockConflict;
\* the transaction goes on and the caller drops its copy.
SaveConflict(u, a) ==
    /\ phase[u] = "Open"
    /\ held[u][a] # 0
    /\ ~ExpectedVersion(u, a)
    /\ held' = [held EXCEPT ![u][a] = 0]
    /\ image' = [image EXCEPT ![u][a] = {}]
    /\ UNCHANGED <<database, phase, rows, transitionKeys, reservation, links,
                   rollbacks, history>>

\* audit.append of the event of the copy the caller has saved or is about to.
Append(u, a) ==
    /\ phase[u] = "Open"
    /\ held[u][a] # 0
    /\ \E v \in {held[u][a], held[u][a] + 1} \cap 2..MaxVersion :
         RecordEvent(u, <<a, v>>) \/ RefuseEvent(u, <<a, v>>)
    /\ UNCHANGED <<database, copies, wrote, draft, saved, reservation, links,
                   rollbacks, history>>
-----------------------------------------------------------------------------
(***************************************************************************)
(* The reservation of the command and the single-use links                 *)
(***************************************************************************)

\* reserve: INSERT ... ON CONFLICT DO NOTHING inserts the key.
ReserveClaimed(u) ==
    /\ phase[u] = "Open"
    /\ ~KeyLocked(u)
    /\ keyStatus[KeyOf[u]] = "None" /\ claim[u] = "None"
    /\ claim' = [claim EXCEPT ![u] = "PENDING"]
    /\ UNCHANGED <<database, phase, copies, rows, transitionKeys, print, answer,
                   told, links, rollbacks, history>>

\* The reservation a unit finds when the key exists: its own or the committed
\* one.
FoundStatus(u) == IF claim[u] # "None" THEN claim[u] ELSE keyStatus[KeyOf[u]]

FoundPrint(u) == IF claim[u] # "None" THEN print[u] ELSE keyPrint[KeyOf[u]]

FoundAnswer(u) == IF claim[u] # "None" THEN answer[u] ELSE keyAnswer[KeyOf[u]]

\* reserve of an existing key gives the stored answer; a key with another
\* fingerprint or without an answer yet is refused, and nothing changes.
ReserveExisting(u) ==
    /\ phase[u] = "Open"
    /\ ~KeyLocked(u)
    /\ FoundStatus(u) = "COMPLETED"
    /\ FoundPrint(u) = print[u]
    /\ told' = [told EXCEPT ![u] = @ \cup {FoundAnswer(u)}]
    /\ UNCHANGED <<database, phase, copies, rows, transitionKeys, print, claim,
                   answer, links, rollbacks, history>>

\* complete, called by the unit that claimed the key: the first answer is
\* stored, a later call gets the stored one.
Complete(u) ==
    /\ phase[u] = "Open"
    /\ \/ /\ claim[u] = "PENDING"
          /\ \E r \in Answers :
               /\ answer' = [answer EXCEPT ![u] = r]
               /\ told' = [told EXCEPT ![u] = @ \cup {r}]
          /\ claim' = [claim EXCEPT ![u] = "COMPLETED"]
       \/ /\ claim[u] = "COMPLETED"
          /\ told' = [told EXCEPT ![u] = @ \cup {answer[u]}]
          /\ UNCHANGED <<claim, answer>>
    /\ UNCHANGED <<database, phase, copies, rows, transitionKeys, print, links,
                   rollbacks, history>>

\* verify_and_consume of a valid link: TRUE only when the INSERT took place;
\* otherwise the link is refused as already consumed.
Consume(u, n) ==
    /\ phase[u] = "Open"
    /\ ~NonceLocked(u, n)
    /\ n \notin consumed \cup taken[u]
    /\ taken' = [taken EXCEPT ![u] = @ \cup {n}]
    /\ granted' = [granted EXCEPT ![u] = @ \cup {n}]
    /\ UNCHANGED <<database, phase, copies, rows, transitionKeys, reservation,
                   rollbacks, history>>
-----------------------------------------------------------------------------
(***************************************************************************)
(* The end of a unit                                                       *)
(***************************************************************************)

\* Mutant: commit does not look at the transition keys.
MissingAudit_Unchecked(u) == {}

\* commit refuses a saved transition that has no appended event.
MissingAudit(u) == saved[u] \ appended[u]

\* commit: every write of the unit becomes visible at once.  A refused commit
\* changes nothing.
Commit(u) ==
    /\ phase[u] = "Open"
    /\ MissingAudit(u) = {}
    /\ phase' = [phase EXCEPT ![u] = "Committed"]
    /\ version' = [a \in Aggregates |-> Visible(u, a)]
    /\ content' = [a \in Aggregates |-> VisibleContent(u, a)]
    /\ done' = [a \in Aggregates |->
                  IF wrote[u][a] = 0 THEN done[a]
                  ELSE done[a] \cup {t \in draft[u][a] :
                                        t.by = u /\ t.to > version[a]}]
    /\ events' = events \cup staged[u]
    /\ IF claim[u] = "None"
       THEN UNCHANGED <<keyStatus, keyPrint, keyAnswer, claimants>>
       ELSE /\ keyStatus' = [keyStatus EXCEPT ![KeyOf[u]] = claim[u]]
            /\ keyPrint' = [keyPrint EXCEPT ![KeyOf[u]] = print[u]]
            /\ keyAnswer' = [keyAnswer EXCEPT ![KeyOf[u]] = answer[u]]
            /\ claimants' = [claimants EXCEPT ![KeyOf[u]] = @ \cup {u}]
    /\ consumed' = consumed \cup taken[u]
    /\ wrote' = [wrote EXCEPT ![u] = [a \in Aggregates |-> 0]]
    /\ draft' = [draft EXCEPT ![u] = [a \in Aggregates |-> {}]]
    /\ staged' = [staged EXCEPT ![u] = {}]
    /\ claim' = [claim EXCEPT ![u] = "None"]
    /\ taken' = [taken EXCEPT ![u] = {}]
    /\ UNCHANGED <<copies, lost, transitionKeys, print, answer, told, granted,
                   rollbacks>>

\* The transaction of a unit is rolled back: nothing it wrote remains, and
\* what its caller was told is void.
Discard(u) ==
    /\ wrote' = [wrote EXCEPT ![u] = [a \in Aggregates |-> 0]]
    /\ draft' = [draft EXCEPT ![u] = [a \in Aggregates |-> {}]]
    /\ staged' = [staged EXCEPT ![u] = {}]
    /\ lost' = [lost EXCEPT ![u] = @ \cup staged[u]]
    /\ claim' = [claim EXCEPT ![u] = "None"]
    /\ answer' = [answer EXCEPT ![u] = NoAnswer]
    /\ taken' = [taken EXCEPT ![u] = {}]
    /\ told' = [told EXCEPT ![u] = {}]
    /\ granted' = [granted EXCEPT ![u] = {}]
    /\ UNCHANGED print

\* __aexit__ without a commit (an exception, a cancelled task, a caller that
\* forgot), a crash, a lost connection or the victim of a deadlock.
Leave(u) ==
    /\ phase[u] \in {"Open", "Aborted"}
    /\ phase' = [phase EXCEPT ![u] = "Left"]
    /\ Discard(u)
    /\ UNCHANGED <<database, copies, transitionKeys, rollbacks, history>>

\* rollback() inside the unit: the session starts over and the two sets of
\* transition keys stay.  Its caller starts over as well, and drops the copies
\* that the transaction gave it.
Rollback(u) ==
    /\ phase[u] \in {"Open", "Aborted"}
    /\ rollbacks[u] < MaxRollbacks
    /\ phase' = [phase EXCEPT ![u] = "Open"]
    /\ rollbacks' = [rollbacks EXCEPT ![u] = @ + 1]
    /\ held' = [held EXCEPT ![u] = [a \in Aggregates |-> 0]]
    /\ image' = [image EXCEPT ![u] = [a \in Aggregates |-> {}]]
    /\ Discard(u)
    /\ UNCHANGED <<database, transitionKeys, history>>

Next ==
    \E u \in Units :
        \/ Enter(u)
        \/ \E a \in Aggregates :
             \/ Get(u, a)
             \/ Add(u, a)
             \/ AddExisting(u, a)
             \/ SaveOnly(u, a)
             \/ SaveTransition(u, a)
             \/ SaveTransitionFails(u, a)
             \/ SaveConflict(u, a)
             \/ Append(u, a)
        \/ ReserveClaimed(u)
        \/ ReserveExisting(u)
        \/ Complete(u)
        \/ \E n \in Nonces : Consume(u, n)
        \/ Commit(u)
        \/ Leave(u)
        \/ Rollback(u)

Spec == Init /\ [][Next]_vars
-----------------------------------------------------------------------------
(***************************************************************************)
(* Properties                                                              *)
(***************************************************************************)

\* No update is lost: the committed snapshot of an aggregate was computed from
\* every transition that was ever committed on it, one per version, however
\* the units that loaded the same version interleave (the optimistic lock of
\* save).
NoLostUpdate ==
    \A a \in Aggregates :
        /\ content[a] = done[a]
        /\ \A n \in 1..version[a] : \E t \in done[a] : t.to = n
        /\ \A s, t \in done[a] : s.to = t.to => s = t

\* Every committed change of an existing aggregate has its audit event, of the
\* very version, whichever unit wrote it, however it appended the event and
\* whether or not it went on after rollback() or after an error of append (the
\* audit check of commit).  What the check cannot see is an event that the unit
\* had counted and then lost: append refused it, or a rollback took it back.
TransitionsAreAudited ==
    \A a \in Aggregates : \A t \in done[a] :
        t.to > 1 => <<a, t.to>> \in events \/ <<a, t.to>> \in lost[t.by]

\* Whatever is for one use is used once.  Of all the units that claimed a key
\* at most one committed, and everybody who was given an answer for the key, by
\* complete or by a replay of reserve, was given the same one and had sent the
\* same payload; and two callers were never both told that they consumed a
\* link, unless the transaction of one was rolled back.
UsedOnce ==
    /\ \A k \in Keys : \A u, v \in claimants[k] : u = v
    /\ \A u, v \in Units : KeyOf[u] = KeyOf[v] =>
         \A r \in told[u], s \in told[v] : r = s /\ print[u] = print[v]
    /\ \A u, v \in Units : u # v => granted[u] \cap granted[v] = {}
=============================================================================
