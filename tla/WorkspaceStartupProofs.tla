----------------------- MODULE WorkspaceStartupProofs -----------------------
(***************************************************************************)
(* Proofs about WorkspaceStartup for any number of processes, works and     *)
(* schema versions.                                                        *)
(*                                                                         *)
(* What a process read before a transaction can only be stale when another  *)
(* process is open.  The invariant says it so: ProcessOK holds of every     *)
(* process, AloneOK of one that has met no other, and Meetings that two     *)
(* open processes have met.  A step of one process leaves ProcessOK of the  *)
(* others because the file, the identity and the works only grow, and       *)
(* AloneOK of the others has nothing to say then (lemma StepKeeps).         *)
(***************************************************************************)
EXTENDS WorkspaceStartup, TLAPS

Later == {"rules", "addRules", "boards", "addBoard", "running"}

ProcessOK(p) ==
    /\ pc[p] = "upgrade" => step[p] < Latest
    /\ pc[p] \in {"identity", "claim"} \cup Later => file = "schema"
    /\ pc[p] \in Later => version # 0
    /\ todo[p] \subseteq works /\ seen[p].works \subseteq works
    /\ pc[p] = "addBoard" => todo[p] # {} /\ seen[p].boards = 0 /\ seen[p].unplaced

AloneOK(p) ==
    IsOpen(p) /\ ~met[p] =>
        /\ pc[p] = "upgrade" => version = step[p]
        /\ pc[p] = "migrate" => version = 0 \/ step[p] <= version
        /\ pc[p] \in {"schema", "tables", "identity"} => version = 0 \/ version >= Latest
        /\ pc[p] = "claim" => version = 0
        /\ pc[p] \in Later => version = Latest
        /\ pc[p] = "addRules" => seen[p].works = works \ rules
        /\ pc[p] \in {"boards", "addBoard", "running"} =>
               works \subseteq rules /\ \A w \in works \ todo[p] : boards[w] = 1
        /\ pc[p] = "addBoard" => boards[Current(p)] = 0
        /\ pc[p] = "running" => todo[p] = {}

Meetings ==
    \A p, q \in Processes : p # q /\ IsOpen(p) /\ IsOpen(q) => met[p]

BoardsOK == \A w \in Works : placed[w] = boards[w]

(* The migrations made so far, since the version v that was found.         *)
Since(v) ==
    /\ v = 0 => version \in {0, Latest}
    /\ v # 0 => v <= version
    /\ \A s \in 1..Latest :
           applied[s] = IF v # 0 /\ v <= s /\ s < version THEN 1 ELSE 0

Inv ==
    /\ TypeOK
    /\ \A p \in Processes : ProcessOK(p) /\ AloneOK(p)
    /\ Meetings
    /\ BoardsOK
    /\ \E v \in FirstVersions : Since(v)

-----------------------------------------------------------------------------
(* What every step of a process p that is open leaves to the others.       *)
Leaves(p) ==
    /\ \A q \in Processes \ {p} : pc'[q] = pc[q] /\ step'[q] = step[q]
                                  /\ todo'[q] = todo[q] /\ seen'[q] = seen[q]
    /\ met' = met
    /\ file = "schema" => file' = "schema"
    /\ version # 0 => version' # 0
    /\ works \subseteq works'

(* What a step of one process has to show: the others keep what they know. *)
LEMMA StepKeeps ==
    ASSUME Inv, NEW p \in Processes, IsOpen(p), Leaves(p),
           TypeOK', ProcessOK(p)', AloneOK(p)', BoardsOK',
           \E v \in FirstVersions : Since(v)'
    PROVE  Inv'
<1>1. ASSUME NEW q \in Processes, q # p
      PROVE  ProcessOK(q)' /\ AloneOK(q)'
  <2>1. ProcessOK(q) /\ (IsOpen(q) => met[q])
    BY <1>1 DEF Inv, Meetings
  <2>2. /\ pc'[q] = pc[q] /\ step'[q] = step[q] /\ todo'[q] = todo[q]
        /\ seen'[q] = seen[q] /\ met' = met
    BY <1>1 DEF Leaves
  <2>3. ProcessOK(q)'
    BY <2>1, <2>2 DEF ProcessOK, Leaves
  <2>4. AloneOK(q)'
    BY <2>1, <2>2 DEF AloneOK, IsOpen
  <2> QED
    BY <2>3, <2>4
<1>2. Meetings'
  <2> SUFFICES ASSUME NEW a \in Processes, NEW b \in Processes, a # b,
                      IsOpen(a)', IsOpen(b)'
               PROVE  met'[a]
    BY DEF Meetings
  <2>1. met' = met /\ (a # p => IsOpen(a)) /\ (b # p => IsOpen(b))
    BY DEF Leaves, IsOpen
  <2>2. IsOpen(a) /\ IsOpen(b)
    BY <2>1
  <2> QED
    BY <2>1, <2>2 DEF Inv, Meetings
<1> QED
  BY <1>1, <1>2 DEF Inv

-----------------------------------------------------------------------------
(* The start of a process keeps the invariant.                             *)
LEMMA StartStep ==
    ASSUME Inv, NEW p \in Processes, Start(p)
    PROVE  Inv'
<1>1. TypeOK /\ BoardsOK
  BY DEF Inv
<1>2. /\ pc' = [pc EXCEPT ![p] = "migrate"] /\ step' = [step EXCEPT ![p] = 1]
      /\ todo' = [todo EXCEPT ![p] = {}] /\ seen' = [seen EXCEPT ![p] = Nothing]
      /\ UNCHANGED <<file, version, applied, works, rules, boards, placed>>
      /\ starts' = starts + 1
      /\ met' = [q \in Processes |->
                    IF q = p THEN {r \in Processes \ {p} : IsOpen(r)} # {}
                    ELSE met[q] \/ q \in {r \in Processes \ {p} : IsOpen(r)}]
  BY DEF Start, Goes, Notes, content
<1>3. TypeOK'
  <2>1. met' \in [Processes -> BOOLEAN]
    BY <1>1, <1>2, Zenon DEF TypeOK
  <2>2. Nothing \in [version : 0..(Latest + 1), works : SUBSET Works,
                     boards : {0, 1}, unplaced : BOOLEAN]
    BY ConstantsAssumption DEF Nothing
  <2>3. /\ pc' \in [Processes -> Stages] /\ step' \in [Processes -> 1..Latest]
        /\ todo' \in [Processes -> SUBSET Works] /\ starts' \in Nat
    BY <1>1, <1>2, ConstantsAssumption DEF TypeOK, Stages
  <2>4. seen' \in [Processes -> [version : 0..(Latest + 1), works : SUBSET Works,
                                 boards : {0, 1}, unplaced : BOOLEAN]]
    BY <1>1, <1>2, <2>2, Zenon DEF TypeOK
  <2> QED
    BY <1>1, <1>2, <2>1, <2>3, <2>4 DEF TypeOK
<1>4. \A q \in Processes :
          /\ pc'[q] = IF q = p THEN "migrate" ELSE pc[q]
          /\ step'[q] = IF q = p THEN 1 ELSE step[q]
          /\ todo'[q] = IF q = p THEN {} ELSE todo[q]
          /\ seen'[q] = IF q = p THEN Nothing ELSE seen[q]
  BY <1>1, <1>2 DEF TypeOK
<1>5. ASSUME NEW q \in Processes PROVE ProcessOK(q)' /\ AloneOK(q)'
  <2>1. CASE q = p
    <3>1. version = 0 \/ 1 <= version
      BY <1>1, ConstantsAssumption DEF TypeOK
    <3> QED
      BY <1>2, <1>4, <2>1, <3>1 DEF ProcessOK, AloneOK, Later, Nothing
  <2>2. CASE q # p
    <3>1. ProcessOK(q) /\ AloneOK(q)
      BY DEF Inv
    <3>2. ProcessOK(q)'
      BY <1>2, <1>4, <2>2, <3>1 DEF ProcessOK
    <3>3. IsOpen(q)' => met'[q]
      <4>1. q \in {r \in Processes \ {p} : IsOpen(r)} => met'[q]
        BY <1>2, <2>2, Zenon
      <4> QED
        BY <1>4, <2>2, <4>1 DEF IsOpen
    <3> QED
      BY <3>2, <3>3 DEF AloneOK
  <2> QED
    BY <2>1, <2>2
<1>6. Meetings'
  <2> SUFFICES ASSUME NEW a \in Processes, NEW b \in Processes, a # b,
                      IsOpen(a)', IsOpen(b)'
               PROVE  met'[a]
    BY DEF Meetings
  <2>1. CASE a = p
    <3>1. b \in {r \in Processes \ {p} : IsOpen(r)}
      BY <1>4, <2>1 DEF IsOpen
    <3> QED
      BY <1>2, <2>1, <3>1, Zenon
  <2>2. CASE a # p
    <3>1. a \in {r \in Processes \ {p} : IsOpen(r)}
      BY <1>4, <2>2 DEF IsOpen
    <3> QED
      BY <1>2, <2>2, <3>1, Zenon
  <2> QED
    BY <2>1, <2>2
<1>7. BoardsOK' /\ \E v \in FirstVersions : Since(v)'
  BY <1>2 DEF Inv, BoardsOK, Since
<1> QED
  BY <1>3, <1>5, <1>6, <1>7 DEF Inv

(* A process that fails or ends only leaves the others.                    *)
LEMMA GoneStep ==
    ASSUME Inv, NEW p \in Processes, IsOpen(p),
           NEW stage \in {"failed", "off"}, Goes(p, stage),
           UNCHANGED <<file, version, applied, content, step, todo, seen, met, starts>>
    PROVE  Inv'
<1>1. TypeOK
  BY DEF Inv
<1>2. /\ pc' \in [Processes -> Stages] /\ pc'[p] = stage
      /\ \A q \in Processes \ {p} : pc'[q] = pc[q]
  BY <1>1 DEF TypeOK, Goes, Stages
<1>3. TypeOK' /\ BoardsOK' /\ \E v \in FirstVersions : Since(v)'
  BY <1>1, <1>2 DEF Inv, TypeOK, BoardsOK, Since, content
<1>4. Leaves(p)
  BY <1>2 DEF Leaves, content
<1>5. ProcessOK(p)'
  BY <1>2 DEF Inv, ProcessOK, content, Later
<1>6. AloneOK(p)'
  BY <1>2 DEF AloneOK, IsOpen
<1> QED
  BY <1>3, <1>4, <1>5, <1>6, StepKeeps

-----------------------------------------------------------------------------
(* The migrations.                                                         *)
LEMMA MigrateStep ==
    ASSUME Inv, NEW p \in Processes,
           \/ ReadVersion(p) \/ Migrate(p) \/ MigratedMeanwhile(p) \/ MigrationsEnd(p)
    PROVE  Inv'
<1> USE ConstantsAssumption
<1>1. /\ TypeOK /\ ProcessOK(p) /\ AloneOK(p) /\ BoardsOK
      /\ step[p] \in 1..Latest /\ version \in 0..(Latest + 1)
  BY DEF Inv, TypeOK
<1>2. /\ \A q \in Processes \ {p} : pc'[q] = pc[q] /\ step'[q] = step[q]
                                    /\ todo'[q] = todo[q] /\ seen'[q] = seen[q]
      /\ UNCHANGED <<file, works, rules, boards, placed, todo, met, starts>>
      /\ seen'[p].works \in {{}, seen[p].works}
      /\ IsOpen(p)
  <2>1. /\ UNCHANGED <<file, works, rules, boards, placed, todo, met, starts>>
        /\ pc[p] \in {"migrate", "upgrade"}
    BY DEF ReadVersion, Migrate, MigratedMeanwhile, MigrationsEnd, content,
           Migrating, AtStage
  <2>2. /\ \E stage \in Stages : pc' = [pc EXCEPT ![p] = stage]
        /\ \E n \in Nat : step' = [step EXCEPT ![p] = n] \/ step' = step
        /\ seen' = [seen EXCEPT ![p] = [Nothing EXCEPT !.version = version]]
              \/ seen' = seen
    BY <1>1 DEF ReadVersion, Migrate, MigratedMeanwhile, MigrationsEnd, Goes, Notes,
                Stages
  <2>3. [Nothing EXCEPT !.version = version].works = {}
    BY DEF Nothing
  <2>4. \A q \in Processes \ {p} : pc'[q] = pc[q] /\ step'[q] = step[q]
    BY <1>1, <2>2 DEF TypeOK
  <2>5. /\ \A q \in Processes \ {p} : seen'[q] = seen[q]
        /\ seen'[p].works \in {{}, seen[p].works}
    BY <1>1, <2>2, <2>3 DEF TypeOK
  <2> QED
    BY <2>1, <2>4, <2>5 DEF IsOpen
<1>3. \/ /\ pc[p] = "migrate" /\ pc'[p] = "upgrade" /\ version' = version
         /\ applied' = applied /\ step'[p] = step[p]
         /\ step[p] < Latest /\ version = step[p]
      \/ /\ pc[p] = "migrate" /\ pc'[p] = "migrate" /\ version' = version
         /\ applied' = applied /\ step'[p] = step[p] + 1
         /\ step[p] < Latest /\ (version = step[p] => file = "absent")
      \/ /\ pc[p] = "upgrade" /\ pc'[p] = "migrate" /\ version = step[p]
         /\ version' = step[p] + 1 /\ step'[p] = step[p] + 1
         /\ applied' = [applied EXCEPT ![step[p]] = @ + 1]
      \/ /\ pc[p] = "upgrade" /\ pc'[p] = "migrate" /\ version = step[p] + 1
         /\ version' = version /\ step'[p] = step[p] + 1 /\ applied' = applied
      \/ /\ pc[p] = "migrate" /\ pc'[p] = "schema" /\ step[p] = Latest
         /\ version' = version /\ step'[p] = step[p] /\ applied' = applied
  <2>1. CASE ReadVersion(p)
    <3>1. CASE file # "absent" /\ version = step[p]
      BY <1>1, <2>1, <3>1 DEF TypeOK, ReadVersion, Goes, Migrating, AtStage
    <3>2. CASE ~(file # "absent" /\ version = step[p])
      BY <1>1, <2>1, <3>2 DEF TypeOK, ReadVersion, Goes, Migrating, AtStage
    <3> QED
      BY <3>1, <3>2
  <2>2. CASE Migrate(p)
    BY <1>1, <2>2 DEF TypeOK, Migrate, Goes, AtStage
  <2>3. CASE MigratedMeanwhile(p)
    BY <1>1, <2>3 DEF TypeOK, MigratedMeanwhile, Goes, AtStage
  <2>4. CASE MigrationsEnd(p)
    BY <1>1, <2>4 DEF TypeOK, MigrationsEnd, Goes, AtStage
  <2> QED
    BY <2>1, <2>2, <2>3, <2>4
<1>4. version \in Nat /\ step[p] \in Nat /\ Latest \in Nat
      /\ (version # 0 => file = "schema") /\ (pc[p] = "upgrade" => step[p] < Latest)
  BY <1>1 DEF TypeOK, ProcessOK
<1>5. Leaves(p)
  BY <1>2, <1>3, <1>4 DEF Leaves
<1>6. ProcessOK(p)'
  BY <1>1, <1>2, <1>3 DEF ProcessOK, Later
<1>7. AloneOK(p)'
  <2>1. CASE ~met[p]
    BY <1>1, <1>2, <1>3, <1>4, <2>1 DEF AloneOK, Later, IsOpen
  <2>2. CASE met[p]
    BY <1>2, <2>2, Zenon DEF AloneOK
  <2> QED
    BY <2>1, <2>2
<1>8. TypeOK'
  <2>1. /\ pc' \in [Processes -> Stages] /\ step' \in [Processes -> 1..Latest]
        /\ applied' \in [1..Latest -> Nat] /\ version' \in 0..(Latest + 1)
    <3>1. pc' \in [Processes -> Stages]
      BY <1>1 DEF TypeOK, ReadVersion, Migrate, MigratedMeanwhile,
                  MigrationsEnd, Goes, Stages
    <3>2. step' = step \/ step' = [step EXCEPT ![p] = @ + 1]
      BY DEF ReadVersion, Migrate, MigratedMeanwhile, MigrationsEnd
    <3>3. step' \in [Processes -> 1..Latest]
      <4>1. CASE step' = step
        BY <1>1, <4>1 DEF TypeOK
      <4>2. CASE step' = [step EXCEPT ![p] = @ + 1]
        <5>1. step'[p] = step[p] + 1 /\ step \in [Processes -> 1..Latest]
          BY <1>1, <4>2 DEF TypeOK
        <5>2. step[p] + 1 \in 1..Latest
          BY <1>3, <1>4, <5>1
        <5> QED
          BY <4>2, <5>1, <5>2
      <4> QED
        BY <3>2, <4>1, <4>2
    <3>4. applied' \in [1..Latest -> Nat]
      <4>1. applied \in [1..Latest -> Nat]
        BY <1>1 DEF TypeOK
      <4>2. applied' = applied \/ applied' = [applied EXCEPT ![step[p]] = @ + 1]
        BY <1>3
      <4> QED
        BY <1>1, <4>1, <4>2
    <3>5. version' \in 0..(Latest + 1)
      BY <1>1, <1>3, <1>4
    <3> QED
      BY <3>1, <3>3, <3>4, <3>5
  <2>2. seen' \in [Processes -> [version : 0..(Latest + 1), works : SUBSET Works,
                                 boards : {0, 1}, unplaced : BOOLEAN]]
    <3>1. [Nothing EXCEPT !.version = version] \in
              [version : 0..(Latest + 1), works : SUBSET Works,
               boards : {0, 1}, unplaced : BOOLEAN]
      BY <1>1 DEF Nothing
    <3>2. seen' = seen \/ seen' = [seen EXCEPT ![p] = [Nothing EXCEPT !.version = version]]
      BY DEF ReadVersion, Migrate, MigratedMeanwhile, MigrationsEnd, Notes
    <3>3. seen \in [Processes -> [version : 0..(Latest + 1), works : SUBSET Works,
                                  boards : {0, 1}, unplaced : BOOLEAN]]
      BY <1>1 DEF TypeOK
    <3> QED
      BY <3>1, <3>2, <3>3, Zenon
  <2>3. (version' # 0 => file' = "schema") /\ (works' # {} => version' # 0)
    BY <1>1, <1>2, <1>3, <1>4 DEF TypeOK
  <2> QED
    BY <1>1, <1>2, <2>1, <2>2, <2>3 DEF TypeOK
<1>9. \E v \in FirstVersions : Since(v)'
  <2>1. PICK v \in FirstVersions : Since(v)
    BY DEF Inv
  <2>2. v \in 0..(Latest + 1)
    OBVIOUS
  <2>3. CASE version' = version /\ applied' = applied
    BY <2>1, <2>3 DEF Since
  <2>4. CASE /\ version = step[p] /\ version' = step[p] + 1 /\ step[p] < Latest
             /\ applied' = [applied EXCEPT ![step[p]] = @ + 1]
    <3>1. v # 0 /\ v <= version
      BY <1>1, <1>4, <2>1, <2>4 DEF Since
    <3>2. \A s \in 1..Latest : applied'[s] = IF s = step[p] THEN applied[s] + 1
                                             ELSE applied[s]
      BY <1>1, <2>4 DEF TypeOK
    <3>3. ASSUME NEW s \in 1..Latest
          PROVE  applied'[s] = IF v # 0 /\ v <= s /\ s < version' THEN 1 ELSE 0
      BY <1>4, <2>1, <2>2, <2>4, <3>1, <3>2 DEF Since
    <3> QED
      BY <1>4, <2>2, <2>4, <3>1, <3>3 DEF Since
  <2> QED
    BY <1>3, <1>4, <2>3, <2>4
<1> QED
  BY <1>1, <1>2, <1>5, <1>6, <1>7, <1>8, <1>9, StepKeeps DEF BoardsOK

-----------------------------------------------------------------------------
(* The tables and the identity.                                            *)
LEMMA LedgerStep ==
    ASSUME Inv, NEW p \in Processes,
           \/ OpenLedger(p) \/ CreateTables(p) \/ ReadIdentity(p) \/ ClaimIdentity(p)
    PROVE  Inv'
<1> USE ConstantsAssumption
<1>1. /\ TypeOK /\ ProcessOK(p) /\ AloneOK(p) /\ BoardsOK
      /\ version \in 0..(Latest + 1)
  BY DEF Inv, TypeOK
<1>2. /\ \A q \in Processes \ {p} : pc'[q] = pc[q]
      /\ UNCHANGED <<applied, works, rules, boards, placed, step, todo, seen, met, starts>>
      /\ IsOpen(p)
  BY <1>1 DEF TypeOK, OpenLedger, CreateTables, ReadIdentity, ClaimIdentity, content,
              Goes, AtStage, IsOpen
<1>3. \/ /\ pc[p] = "schema" /\ version' = version
         /\ file' = IF file = "absent" THEN "identity" ELSE file
         /\ pc'[p] = IF file = "schema" THEN "identity" ELSE "tables"
      \/ /\ pc[p] = "tables" /\ pc'[p] = "identity" /\ version' = version
         /\ file' = "schema"
      \/ /\ pc[p] = "identity" /\ version' = version /\ file' = file
         /\ version \in {0, Latest}
         /\ pc'[p] = IF version = 0 THEN "claim" ELSE "rules"
      \/ /\ pc[p] = "claim" /\ pc'[p] = "rules" /\ file' = file
         /\ version = 0 /\ version' = Latest
  BY <1>1 DEF TypeOK, OpenLedger, CreateTables, ReadIdentity, ClaimIdentity,
              Goes, AtStage
<1>4. /\ version # 0 => file = "schema"
      /\ pc[p] \in {"identity", "claim"} => file = "schema"
      /\ file \in {"absent", "identity", "schema"}
      /\ works # {} => version # 0
  BY <1>1 DEF TypeOK, ProcessOK
<1>5. Leaves(p)
  BY <1>2, <1>3, <1>4 DEF Leaves
<1>6. ProcessOK(p)'
  BY <1>1, <1>2, <1>3, <1>4 DEF ProcessOK, Later
<1>7. AloneOK(p)'
  <2>1. CASE ~met[p]
    BY <1>1, <1>2, <1>3, <2>1 DEF AloneOK, Later, IsOpen
  <2>2. CASE met[p]
    BY <1>2, <2>2, Zenon DEF AloneOK
  <2> QED
    BY <2>1, <2>2
<1>8. TypeOK'
  <2>1. pc' \in [Processes -> Stages]
    BY <1>1 DEF TypeOK, OpenLedger, CreateTables, ReadIdentity, ClaimIdentity,
                Goes, Stages
  <2>2. /\ file' \in {"absent", "identity", "schema"} /\ version' \in 0..(Latest + 1)
        /\ version' # 0 => file' = "schema"
        /\ works' # {} => version' # 0
    BY <1>1, <1>2, <1>3, <1>4
  <2> QED
    BY <1>1, <1>2, <2>1, <2>2 DEF TypeOK
<1>9. \E v \in FirstVersions : Since(v)'
  <2>1. PICK v \in FirstVersions : Since(v)
    BY DEF Inv
  <2>2. v \in 0..(Latest + 1)
    OBVIOUS
  <2>3. CASE version' = version
    BY <1>2, <2>1, <2>3 DEF Since
  <2>4. CASE version = 0 /\ version' = Latest
    <3>1. v = 0
      BY <2>1, <2>2, <2>4 DEF Since
    <3> QED
      BY <1>2, <2>1, <2>4, <3>1 DEF Since
  <2> QED
    BY <1>3, <2>3, <2>4
<1> QED
  BY <1>1, <1>2, <1>5, <1>6, <1>7, <1>8, <1>9, StepKeeps DEF BoardsOK

-----------------------------------------------------------------------------
(* The records that works lack.                                            *)
LEMMA RulesStep ==
    ASSUME Inv, NEW p \in Processes, ReadRules(p) \/ AddRules(p)
    PROVE  Inv'
<1> USE ConstantsAssumption
<1>1. TypeOK /\ ProcessOK(p) /\ AloneOK(p) /\ BoardsOK
  BY DEF Inv
<1>2. /\ \A q \in Processes \ {p} : pc'[q] = pc[q] /\ todo'[q] = todo[q]
                                    /\ seen'[q] = seen[q]
      /\ UNCHANGED <<file, version, applied, works, boards, placed, step, met, starts>>
      /\ IsOpen(p)
  BY <1>1 DEF TypeOK, ReadRules, AddRules, LooksAtBoards, content, Goes, Notes,
              AtStage, IsOpen
<1>3. \/ /\ pc[p] = "rules" /\ rules' = rules /\ works \ rules = {}
         /\ seen'[p].works = {}
         /\ pc'[p] = "boards" /\ todo'[p] = works
      \/ /\ pc[p] = "rules" /\ rules' = rules /\ works \ rules # {}
         /\ seen'[p].works = works \ rules
         /\ pc'[p] = "addRules" /\ todo'[p] = todo[p]
      \/ /\ pc[p] = "addRules" /\ rules' = rules \cup seen[p].works
         /\ seen'[p] = seen[p] /\ pc'[p] = "boards" /\ todo'[p] = works
  <2>1. CASE ReadRules(p)
    <3>1. /\ pc[p] = "rules" /\ rules' = rules
          /\ seen'[p] = [Nothing EXCEPT !.works = works \ rules]
      BY <1>1, <2>1 DEF TypeOK, ReadRules, Notes, AtStage, content
    <3>2. [Nothing EXCEPT !.works = works \ rules].works = works \ rules
      BY DEF Nothing
    <3>3. CASE works \ rules = {}
      BY <1>1, <2>1, <3>1, <3>2, <3>3 DEF TypeOK, ReadRules, LooksAtBoards, Goes
    <3>4. CASE works \ rules # {}
      BY <1>1, <2>1, <3>1, <3>2, <3>4 DEF TypeOK, ReadRules, Goes
    <3> QED
      BY <3>3, <3>4
  <2>2. CASE AddRules(p)
    BY <1>1, <2>2 DEF TypeOK, AddRules, LooksAtBoards, Goes, AtStage
  <2> QED
    BY <2>1, <2>2
<1>4. Leaves(p)
  BY <1>2 DEF Leaves
<1>5. ProcessOK(p)'
  BY <1>1, <1>2, <1>3 DEF ProcessOK, Later
<1>6. AloneOK(p)'
  <2>1. CASE ~met[p]
    BY <1>1, <1>2, <1>3, <2>1 DEF AloneOK, Later, IsOpen
  <2>2. CASE met[p]
    BY <1>2, <2>2, Zenon DEF AloneOK
  <2> QED
    BY <2>1, <2>2
<1>7. TypeOK'
  <2>1. /\ pc' \in [Processes -> Stages] /\ todo' \in [Processes -> SUBSET Works]
        /\ rules' \subseteq works
    <3>1. pc' \in [Processes -> Stages] /\ todo' \in [Processes -> SUBSET Works]
      BY <1>1 DEF TypeOK, ReadRules, AddRules, LooksAtBoards, Goes, Stages
    <3>2. rules' \subseteq works
      BY <1>1, <1>3 DEF TypeOK, ProcessOK
    <3> QED
      BY <3>1, <3>2
  <2>2. seen' \in [Processes -> [version : 0..(Latest + 1), works : SUBSET Works,
                                 boards : {0, 1}, unplaced : BOOLEAN]]
    <3>1. [Nothing EXCEPT !.works = works \ rules] \in
              [version : 0..(Latest + 1), works : SUBSET Works,
               boards : {0, 1}, unplaced : BOOLEAN]
      <4>1. works \ rules \in SUBSET Works /\ 0 \in 0..(Latest + 1)
        BY <1>1 DEF TypeOK
      <4>2. \A W \in SUBSET Works : [Nothing EXCEPT !.works = W] \in
                [version : 0..(Latest + 1), works : SUBSET Works,
                 boards : {0, 1}, unplaced : BOOLEAN]
        BY <4>1, Zenon DEF Nothing
      <4> QED
        BY <4>1, <4>2
    <3>2. seen' = seen \/ seen' = [seen EXCEPT ![p] = [Nothing EXCEPT !.works = works \ rules]]
      BY DEF ReadRules, AddRules, Notes
    <3>3. seen \in [Processes -> [version : 0..(Latest + 1), works : SUBSET Works,
                                  boards : {0, 1}, unplaced : BOOLEAN]]
      BY <1>1 DEF TypeOK
    <3> QED
      BY <3>1, <3>2, <3>3, Zenon
  <2> QED
    BY <1>1, <1>2, <2>1, <2>2 DEF TypeOK
<1>8. \E v \in FirstVersions : Since(v)'
  BY <1>2 DEF Inv, Since
<1> QED
  BY <1>1, <1>2, <1>4, <1>5, <1>6, <1>7, <1>8, StepKeeps DEF BoardsOK

(* The repair of boards, and the running program, keep the invariant.      *)
LEMMA BoardStep ==
    ASSUME Inv, NEW p \in Processes, ReadBoard(p) \/ AddBoard(p) \/ Runs(p)
    PROVE  Inv'
<1> USE ConstantsAssumption
<1> DEFINE w == Current(p)
<1>1. TypeOK /\ ProcessOK(p) /\ AloneOK(p) /\ BoardsOK
  BY DEF Inv
<1>2. /\ \A q \in Processes \ {p} : pc'[q] = pc[q] /\ todo'[q] = todo[q]
                                    /\ seen'[q] = seen[q]
      /\ UNCHANGED <<file, version, applied, works, rules, step, met, starts>>
      /\ IsOpen(p)
  BY <1>1 DEF TypeOK, ReadBoard, AddBoard, Runs, content, Goes, Notes, AtStage, IsOpen
<1>3. todo[p] # {} => w \in todo[p] /\ w \in works /\ w \in Works
  BY <1>1 DEF Current, ProcessOK, TypeOK
<1> HIDE DEF w
<1>4. \/ /\ pc[p] = "boards" /\ todo[p] # {} /\ boards' = boards /\ placed' = placed
         /\ boards[w] = 1 /\ seen'[p].works = {}
         /\ pc'[p] = "boards" /\ todo'[p] = todo[p] \ {w}
      \/ /\ pc[p] = "boards" /\ todo[p] # {} /\ boards' = boards /\ placed' = placed
         /\ boards[w] = 0 /\ seen'[p].works = {}
         /\ seen'[p].boards = 0 /\ seen'[p].unplaced
         /\ pc'[p] = "addBoard" /\ todo' = todo
      \/ /\ pc[p] = "addBoard" /\ todo[p] # {} /\ seen' = seen
         /\ boards' = [boards EXCEPT ![w] = @ + 1]
         /\ placed' = [placed EXCEPT ![w] = @ + 1]
         /\ pc'[p] = "boards" /\ todo'[p] = todo[p] \ {w}
      \/ /\ pc[p] = "boards" /\ todo[p] = {} /\ boards' = boards /\ placed' = placed
         /\ seen' = seen /\ pc'[p] = "running" /\ todo' = todo
  <2>1. CASE ReadBoard(p)
    <3>1. /\ pc[p] = "boards" /\ todo[p] # {} /\ boards' = boards /\ placed' = placed
          /\ boards[w] <= 1
      BY <2>1 DEF ReadBoard, AtStage, content, w
    <3>2. boards[w] \in Nat /\ placed[w] = boards[w]
      BY <1>1, <1>3, <3>1 DEF TypeOK, BoardsOK
    <3>3. seen'[p] = [Nothing EXCEPT !.boards = boards[w], !.unplaced = (placed[w] = 0)]
      BY <1>1, <2>1 DEF TypeOK, ReadBoard, Notes, w
    <3>4. /\ seen'[p].works = {} /\ seen'[p].boards = boards[w]
          /\ seen'[p].unplaced = (placed[w] = 0)
      BY <3>3, Zenon DEF Nothing
    <3>5. CASE boards[w] = 1
      <4>1. pc'[p] = "boards" /\ todo'[p] = todo[p] \ {w}
        BY <1>1, <2>1, <3>2, <3>5 DEF TypeOK, ReadBoard, Goes, w
      <4> QED
        BY <3>1, <3>4, <3>5, <4>1
    <3>6. CASE boards[w] = 0
      <4>1. pc'[p] = "addBoard" /\ todo' = todo
        BY <1>1, <2>1, <3>2, <3>6 DEF TypeOK, ReadBoard, Goes, w
      <4>2. seen'[p].unplaced
        BY <3>2, <3>4, <3>6, Zenon
      <4> QED
        BY <3>1, <3>4, <3>6, <4>1, <4>2
    <3> QED
      BY <3>1, <3>2, <3>5, <3>6
  <2>2. CASE AddBoard(p)
    <3>1. pc[p] = "addBoard" /\ todo[p] # {} /\ seen[p].boards = 0 /\ seen[p].unplaced
      BY <1>1, <2>2 DEF AddBoard, AtStage, ProcessOK
    <3> QED
      BY <1>1, <2>2, <3>1 DEF TypeOK, AddBoard, Goes, w
  <2>3. CASE Runs(p)
    BY <1>1, <2>3 DEF TypeOK, Runs, Goes, AtStage, content
  <2> QED
    BY <2>1, <2>2, <2>3
<1>5. Leaves(p)
  BY <1>2 DEF Leaves
<1>6. ProcessOK(p)'
  BY <1>1, <1>2, <1>4 DEF ProcessOK, Later
<1>7. \A x \in Works : /\ boards[x] \in Nat /\ boards'[x] \in Nat
                       /\ x # w => boards'[x] = boards[x]
  BY <1>1, <1>4 DEF TypeOK
<1>8. AloneOK(p)'
  <2>1. CASE ~met[p]
    <3>1. /\ pc[p] \in Later => version = Latest /\ version # 0
          /\ pc[p] \in {"boards", "addBoard"} =>
                 works \subseteq rules /\ \A x \in works \ todo[p] : boards[x] = 1
          /\ pc[p] = "addBoard" => boards[w] = 0
      BY <1>1, <1>2, <2>1 DEF AloneOK, ProcessOK, w
    <3>2. pc[p] = "addBoard" => boards'[w] = 1
      BY <1>1, <1>3, <1>4, <3>1 DEF TypeOK
    <3>3. pc'[p] = "addBoard" => boards'[Current(p)'] = 0
      BY <1>4 DEF Current, w
    <3>4. \A x \in works \ todo'[p] : boards'[x] = 1
      BY <1>1, <1>4, <1>7, <3>1, <3>2 DEF TypeOK
    <3> QED
      BY <1>2, <1>4, <3>1, <3>3, <3>4 DEF AloneOK, Later
  <2>2. CASE met[p]
    BY <1>2, <2>2, Zenon DEF AloneOK
  <2> QED
    BY <2>1, <2>2
<1>9. TypeOK'
  <2>1. pc' \in [Processes -> Stages] /\ todo' \in [Processes -> SUBSET Works]
    <3>1. \E stage \in Stages : pc' = [pc EXCEPT ![p] = stage]
      BY DEF ReadBoard, AddBoard, Runs, Goes, Stages
    <3>2. todo' = todo \/ todo' = [todo EXCEPT ![p] = @ \ {w}]
      BY DEF ReadBoard, AddBoard, Runs, w
    <3> QED
      BY <1>1, <3>1, <3>2 DEF TypeOK
  <2>2. boards' \in [Works -> Nat] /\ placed' \in [Works -> Nat]
    BY <1>1, <1>4 DEF TypeOK
  <2>3. seen' \in [Processes -> [version : 0..(Latest + 1), works : SUBSET Works,
                                 boards : {0, 1}, unplaced : BOOLEAN]]
    <3>1. seen \in [Processes -> [version : 0..(Latest + 1), works : SUBSET Works,
                                  boards : {0, 1}, unplaced : BOOLEAN]]
      BY <1>1 DEF TypeOK
    <3>2. CASE ReadBoard(p)
      <4>1. boards[w] \in {0, 1} /\ (placed[w] = 0) \in BOOLEAN
        BY <1>1, <1>3, <3>2 DEF TypeOK, ReadBoard, w
      <4>2. \A n \in {0, 1}, b \in BOOLEAN :
                [Nothing EXCEPT !.boards = n, !.unplaced = b] \in
                    [version : 0..(Latest + 1), works : SUBSET Works,
                     boards : {0, 1}, unplaced : BOOLEAN]
        <5>1. 0 \in 0..(Latest + 1)
          OBVIOUS
        <5> QED
          BY <5>1, Zenon DEF Nothing
      <4>3. seen' = [seen EXCEPT ![p] =
                        [Nothing EXCEPT !.boards = boards[w], !.unplaced = (placed[w] = 0)]]
        BY <3>2 DEF ReadBoard, Notes, w
      <4> QED
        BY <3>1, <4>1, <4>2, <4>3, Zenon
    <3>3. CASE AddBoard(p) \/ Runs(p)
      BY <3>1, <3>3 DEF AddBoard, Runs
    <3> QED
      BY <3>2, <3>3
  <2> QED
    BY <1>1, <1>2, <2>1, <2>2, <2>3 DEF TypeOK
<1>10. BoardsOK'
  BY <1>1, <1>3, <1>4 DEF TypeOK, BoardsOK
<1>11. \E v \in FirstVersions : Since(v)'
  BY <1>2 DEF Inv, Since
<1> QED
  BY <1>2, <1>5, <1>6, <1>8, <1>9, <1>10, <1>11, StepKeeps

(* Creating a work with its rule and its board keeps the invariant.        *)
LEMMA WorkStep ==
    ASSUME Inv, NEW p \in Processes, CreateWork(p)
    PROVE  Inv'
<1>1. TypeOK /\ ProcessOK(p) /\ AloneOK(p) /\ BoardsOK
  BY DEF Inv
<1>2. PICK w \in Works \ works : /\ works' = works \cup {w} /\ rules' = rules \cup {w}
                                 /\ boards' = [boards EXCEPT ![w] = 1]
                                 /\ placed' = [placed EXCEPT ![w] = 1]
  BY DEF CreateWork
<1>3. pc[p] = "running" /\ IsOpen(p) /\ version # 0
      /\ UNCHANGED <<file, version, applied, pc, step, todo, seen, met, starts>>
  BY <1>1 DEF CreateWork, AtStage, IsOpen, ProcessOK, Later
<1>4. Leaves(p)
  BY <1>2, <1>3 DEF Leaves
<1>5. ProcessOK(p)'
  BY <1>1, <1>2, <1>3 DEF ProcessOK, Later
<1>6. AloneOK(p)'
  <2>1. CASE ~met[p]
    <3>1. /\ version = Latest /\ works \subseteq rules /\ todo[p] = {}
          /\ \A x \in works : boards[x] = 1
      BY <1>1, <1>3, <2>1 DEF AloneOK, Later
    <3>2. \A x \in works' : boards'[x] = 1
      BY <1>1, <1>2, <3>1 DEF TypeOK
    <3> QED
      BY <1>2, <1>3, <3>1, <3>2 DEF AloneOK, Later
  <2>2. CASE met[p]
    BY <1>3, <2>2, Zenon DEF AloneOK
  <2> QED
    BY <2>1, <2>2
<1>7. TypeOK' /\ BoardsOK'
  BY <1>1, <1>2, <1>3 DEF TypeOK, BoardsOK
<1>8. \E v \in FirstVersions : Since(v)'
  BY <1>3 DEF Inv, Since
<1> QED
  BY <1>3, <1>4, <1>5, <1>6, <1>7, <1>8, StepKeeps

-----------------------------------------------------------------------------
(* The steps that only fail.                                               *)
Refuses(p) ==
    \/ IdentityIsAmbiguous(p) \/ MigrationConflicts(p) \/ IdentityDiffers(p)
    \/ IdentityIsTaken(p) \/ RulesExist(p) \/ TooManyBoards(p) \/ Busy(p)

(* A refused start or the end of a process keeps the invariant.            *)
LEMMA RefusalStep ==
    ASSUME Inv, NEW p \in Processes, Refuses(p) \/ Ends(p)
    PROVE  Inv'
<1>1. IsOpen(p)
  BY DEF Refuses, IdentityIsAmbiguous, MigrationConflicts, IdentityDiffers,
         IdentityIsTaken, RulesExist, TooManyBoards, Busy, Ends, Migrating,
         AtStage, IsOpen
<1>2. \E stage \in {"failed", "off"} :
          /\ Goes(p, stage)
          /\ UNCHANGED <<file, version, applied, content, step, todo, seen, met, starts>>
  BY DEF Refuses, IdentityIsAmbiguous, MigrationConflicts, IdentityDiffers,
         IdentityIsTaken, RulesExist, TooManyBoards, Busy, Ends, Fails
<1> QED
  BY <1>1, <1>2, GoneStep

(* The inductive invariant: what a process that has met no other has read  *)
(* is still so.                                                            *)
THEOREM Invariance == Spec => []Inv
<1>1. Init => Inv
  <2> SUFFICES ASSUME Init PROVE Inv
    OBVIOUS
  <2>1. PICK v \in FirstVersions :
            /\ file = IF v = 0 THEN "absent" ELSE "schema"
            /\ version = v
            /\ applied = [s \in 1..Latest |-> 0]
            /\ works \in IF v = 0 THEN {{}} ELSE SUBSET Works
            /\ rules = IF v < BoardVersion THEN {} ELSE works
            /\ boards = [w \in Works |-> IF w \in works /\ v >= BoardVersion
                                         THEN 1 ELSE 0]
            /\ placed = boards
            /\ pc = [p \in Processes |-> "off"]
            /\ step = [p \in Processes |-> 1]
            /\ todo = [p \in Processes |-> {}]
            /\ seen = [p \in Processes |-> Nothing]
            /\ met = [p \in Processes |-> FALSE]
            /\ starts = 0
    BY Zenon DEF Init
  <2>2. v \in 0..(Latest + 1) /\ Latest \in Nat \ {0}
    BY ConstantsAssumption
  <2>3. TypeOK
    <3>1. Nothing \in [version : 0..(Latest + 1), works : SUBSET Works,
                       boards : {0, 1}, unplaced : BOOLEAN]
      BY <2>2 DEF Nothing
    <3>2. /\ seen \in [Processes -> [version : 0..(Latest + 1), works : SUBSET Works,
                                     boards : {0, 1}, unplaced : BOOLEAN]]
          /\ met \in [Processes -> BOOLEAN]
      BY <2>1, <3>1, Zenon
    <3>3. /\ file \in {"absent", "identity", "schema"} /\ version \in 0..(Latest + 1)
          /\ works \subseteq Works /\ rules \subseteq works
          /\ version # 0 => file = "schema"
          /\ works # {} => version # 0
      BY <2>1, <2>2
    <3>4. /\ applied \in [1..Latest -> Nat]
          /\ boards \in [Works -> Nat] /\ placed \in [Works -> Nat]
      BY <2>1
    <3>5. /\ pc \in [Processes -> Stages] /\ step \in [Processes -> 1..Latest]
          /\ todo \in [Processes -> SUBSET Works] /\ starts \in Nat
      BY <2>1, <2>2 DEF Stages
    <3> QED
      BY <3>2, <3>3, <3>4, <3>5 DEF TypeOK
  <2>4. \A p \in Processes : pc[p] = "off" /\ todo[p] = {} /\ seen[p].works = {}
    BY <2>1 DEF Nothing
  <2>5. /\ \A p \in Processes : ProcessOK(p) /\ AloneOK(p)
        /\ Meetings
    BY <2>4 DEF ProcessOK, AloneOK, Meetings, IsOpen, Later
  <2>6. BoardsOK /\ Since(v)
    BY <2>1, <2>2 DEF BoardsOK, Since
  <2> QED
    BY <2>3, <2>5, <2>6 DEF Inv
<1>2. Inv /\ [Next]_vars => Inv'
  <2> SUFFICES ASSUME Inv, [Next]_vars PROVE Inv'
    OBVIOUS
  <2>1. CASE Next
    BY <2>1, StartStep, MigrateStep, LedgerStep, RulesStep, BoardStep, WorkStep,
       RefusalStep DEF Next, Opens, Refuses
  <2>2. CASE UNCHANGED vars
    <3>1. TypeOK'
      BY <2>2 DEF Inv, TypeOK, vars, content
    <3>2. (\A p \in Processes : ProcessOK(p) /\ AloneOK(p))'
      BY <2>2 DEF Inv, ProcessOK, AloneOK, IsOpen, Current, vars, content
    <3>3. (Meetings /\ BoardsOK /\ \E v \in FirstVersions : Since(v))'
      BY <2>2 DEF Inv, Meetings, IsOpen, BoardsOK, Since, vars, content
    <3> QED
      BY <3>1, <3>2, <3>3 DEF Inv
  <2> QED
    BY <2>1, <2>2
<1> QED
  BY <1>1, <1>2, PTL DEF Spec

(* Type correctness of the start, for any number of processes.             *)
THEOREM TypeCorrect == Spec => []TypeOK
<1>1. Inv => TypeOK
  BY DEF Inv
<1> QED
  BY <1>1, Invariance, PTL

(* Every migration between the version found and the version reached was   *)
(* committed once, whoever made it (runNodeSqliteStorageMigration).        *)
THEOREM MigrationsAreMadeOnce == Spec => []StepsRunOnce
<1>1. Inv => StepsRunOnce
  BY DEF Inv, Since, StepsRunOnce
<1> QED
  BY <1>1, Invariance, PTL

(* A runtime that opened alone finds complete works                        *)
(* (ensureSceneRuleSetState, ensureDefaultPlotBoardState).                 *)
THEOREM OpenedAloneIsComplete == Spec => []ReadyMeansComplete
<1>1. Inv => ReadyMeansComplete
  <2> SUFFICES ASSUME Inv, NEW p \in Processes, pc[p] = "running", ~met[p]
               PROVE  /\ file = "schema" /\ version = Latest
                      /\ \A w \in works : w \in rules /\ boards[w] = 1 /\ placed[w] = 1
    BY DEF ReadyMeansComplete
  <2>1. ProcessOK(p) /\ AloneOK(p) /\ BoardsOK /\ works \subseteq Works
    BY DEF Inv, TypeOK
  <2> QED
    BY <2>1 DEF ProcessOK, AloneOK, BoardsOK, IsOpen, Later
<1> QED
  BY <1>1, Invariance, PTL

(* A start is refused only beside another process or for its documented    *)
(* causes (initializeOrVerifyIdentity, readExistingSchemaVersion).         *)
THEOREM RefusalsAreJustified == Spec => RefusalsHaveCause
<1>1. Inv /\ [Next]_vars =>
          [\A p \in Processes :
               pc[p] # "failed" /\ pc'[p] = "failed" =>
                   \/ met[p]
                   \/ version > Latest
                   \/ file # "absent" /\ version = 0
                   \/ \E w \in works : boards[w] > 1]_vars
  <2> SUFFICES ASSUME Inv, Next, NEW p \in Processes, pc[p] # "failed",
                      pc'[p] = "failed"
               PROVE  \/ met[p]
                      \/ version > Latest
                      \/ file # "absent" /\ version = 0
                      \/ \E w \in works : boards[w] > 1
    OBVIOUS
  <2>1. TypeOK /\ ProcessOK(p) /\ AloneOK(p)
    BY DEF Inv
  <2>2. Refuses(p)
    <3>1. PICK q \in Processes :
              Start(q) \/ Opens(q) \/ Busy(q) \/ Ends(q) \/ CreateWork(q)
      BY DEF Next
    <3>2. CASE Refuses(q)
      <4>1. pc' = [pc EXCEPT ![q] = "failed"]
        BY <3>2 DEF Refuses, IdentityIsAmbiguous, MigrationConflicts, IdentityDiffers,
                    IdentityIsTaken, RulesExist, TooManyBoards, Busy, Fails, Goes
      <4> QED
        BY <2>1, <3>2, <4>1 DEF TypeOK
    <3>3. CASE ~Refuses(q)
      <4>1. pc' = pc \/ \E stage \in Stages \ {"failed"} : pc' = [pc EXCEPT ![q] = stage]
        <5>1. CASE \/ ReadVersion(q) \/ Migrate(q) \/ MigratedMeanwhile(q)
                   \/ MigrationsEnd(q) \/ OpenLedger(q) \/ CreateTables(q)
          BY <5>1 DEF ReadVersion, Migrate, MigratedMeanwhile, MigrationsEnd,
                      OpenLedger, CreateTables, Goes, Stages
        <5>2. CASE \/ ReadIdentity(q) \/ ClaimIdentity(q) \/ ReadRules(q)
                   \/ AddRules(q) \/ ReadBoard(q) \/ AddBoard(q)
          BY <5>2 DEF ReadIdentity, ClaimIdentity, ReadRules, AddRules,
                      LooksAtBoards, ReadBoard, AddBoard, Goes, Stages
        <5>3. CASE Start(q) \/ Runs(q) \/ Ends(q) \/ CreateWork(q)
          BY <5>3 DEF Start, Runs, Ends, CreateWork, Goes, Stages
        <5> QED
          BY <3>1, <3>3, <5>1, <5>2, <5>3 DEF Opens, Refuses
      <4> QED
        BY <2>1, <4>1 DEF TypeOK
    <3> QED
      BY <3>2, <3>3
  <2>3. SUFFICES ASSUME ~met[p]
                 PROVE  \/ version > Latest
                        \/ file # "absent" /\ version = 0
                        \/ \E w \in works : boards[w] > 1
    OBVIOUS
  <2>4. version \in Nat /\ Latest \in Nat /\ step[p] \in Nat
    BY <2>1, ConstantsAssumption DEF TypeOK
  <2>5. CASE IdentityIsAmbiguous(p)
    BY <2>5 DEF IdentityIsAmbiguous
  <2>6. CASE MigrationConflicts(p)
    BY <2>1, <2>3, <2>4, <2>6 DEF MigrationConflicts, AloneOK, IsOpen, AtStage
  <2>7. CASE IdentityDiffers(p)
    BY <2>1, <2>3, <2>4, <2>7 DEF IdentityDiffers, AloneOK, IsOpen, AtStage
  <2>8. CASE IdentityIsTaken(p)
    BY <2>1, <2>3, <2>8 DEF IdentityIsTaken, AloneOK, IsOpen, AtStage
  <2>9. CASE RulesExist(p)
    BY <2>1, <2>3, <2>9 DEF RulesExist, AloneOK, IsOpen, AtStage
  <2>10. CASE TooManyBoards(p)
    BY <2>1, <2>10 DEF TooManyBoards, ProcessOK, Current
  <2>11. CASE Busy(p)
    BY <2>3, <2>11 DEF Inv, Meetings, Busy, IsOpen
  <2> QED
    BY <2>2, <2>5, <2>6, <2>7, <2>8, <2>9, <2>10, <2>11 DEF Refuses
<1> QED
  BY <1>1, Invariance, PTL DEF Spec, RefusalsHaveCause

=============================================================================
