--------------------------- MODULE RestoreProofs ----------------------------
(* Restore drills: what a passed summary and a complete attestation prove,    *)
(* and that the vault with its drills is BackupVault.                         *)
(*                                                                            *)
(* The invariant follows the evidence from the validated copy over the        *)
(* bundle, the staged files and the tool's memory to the summaries, and the   *)
(* Docker objects of every run.  A tool touches only the objects and          *)
(* summaries of its own id, so a step is split into what it does to its own   *)
(* run and that it leaves the others alone.                                   *)
EXTENDS RestoreDrill, FiniteSetTheorems, TLAPS

\* Zenon is tried before the SMT solver, which is given more time than by default.
USE ZenonT(5), SMTT(30)

Kinds == Containers \cup {"volume", "work", "network"}

\* What a business run creates for its flow.
FlowKinds == {"work", "network", "redis", "app"}

\* Where each tool can be.
RestorePc ==
    {"lock", "bundle", "baseline", "read", "unbaseline", "volume", "seed", "target",
     "compare", "untarget", "finish", "cleanup", "report"}
BusinessPc ==
    {"lock", "checks", "audit", "audited", "work", "clone", "network", "redis", "app",
     "healthy", "sdk", "teardown", "audit2", "audited2", "finish", "cleanup", "report"}

IsTool(t) ==
    t = [tool |-> t.tool, id |-> t.id, pc |-> t.pc, mine |-> t.mine, from |-> t.from,
         seed |-> t.seed, pass |-> t.pass, leftovers |-> t.leftovers]

IsBundle(b) == b = [backup |-> b.backup, manifest |-> b.manifest, complete |-> b.complete]

\* Every variable that is indexed is a function with the right domain.
MapsOK ==
    /\ bundle = [r \in Restore |-> bundle[r]]
    /\ staged = [r \in Restore |-> staged[r]]
    /\ restored = [r \in Restore |-> restored[r]]
    /\ business = [r \in Restore |-> business[r]]
    /\ data = [v \in Volume |-> data[v]]
    /\ proc = [p \in Proc |-> proc[p]]
    /\ \A p \in Proc : IsTool(proc[p])

\* What leaves the vault was validated.
ExportOK ==
    \A r \in Restore :
        /\ bundle[r] # None => IsBundle(bundle[r]) /\ bundle[r].backup \in validated
        /\ staged[r] # None => staged[r].backup \in validated

Clean(r) == \A k \in FlowKinds : Of(k, r) \notin made

\* The summaries of one id.
RunOK(r) ==
    /\ restored[r] # None /\ restored[r].pass =>
          restored[r].backup \in validated /\ data[Of("volume", r)] = restored[r].backup
    /\ business[r] # None => restored[r] # None
    /\ business[r] # None /\ business[r].pass => Clean(r)

\* A restore: it has no summary yet, its bundle binds one validated copy, and once
\* seeded its volume holds that copy.
RestoreOK(p) ==
    LET t == proc[p]
    IN  /\ t.pc \in RestorePc
        /\ restored[t.id] = None
        /\ t.from # None => t.from.backup \in validated /\ t.from.payload = t.from.backup
        /\ t.pc \in {"baseline", "read", "unbaseline", "volume", "seed", "target", "compare",
                     "untarget", "finish"} => t.from # None
        /\ t.pc \in {"target", "compare", "untarget", "finish"} =>
              data[Of("volume", t.id)] = t.from.backup
        /\ t.pass => /\ t.pc = "report" /\ t.from # None
                     /\ data[Of("volume", t.id)] = t.from.backup

\* A business run: the restore has its summary, what exists of the flow is
\* remembered, and nothing of it exists after the teardown.
BusinessOK(p) ==
    LET t == proc[p]
    IN  /\ t.pc \in BusinessPc
        /\ restored[t.id] # None /\ business[t.id] = None
        /\ \A k \in Kinds : Of(k, t.id) \in t.mine => k # "volume"
        /\ t.pc \in {"audit", "audited", "work", "clone", "network", "redis", "app",
                     "healthy", "sdk", "teardown"} =>
              \A k \in FlowKinds : Of(k, t.id) \in made => Of(k, t.id) \in t.mine
        /\ t.pc \in {"audit2", "audited2", "finish"} => Clean(t.id)
        /\ t.pass => t.pc = "report" /\ Clean(t.id)

ToolOK(p) ==
    LET t == proc[p]
    IN  /\ t.tool \in {"none", "restore", "business"}
        /\ t.tool # "none" => t.id \in Restore
        /\ t.tool # "none" => \A x \in t.mine : \E k \in Kinds : x = Of(k, t.id)
        /\ t.tool = "restore" => RestoreOK(p)
        /\ t.tool = "business" => BusinessOK(p)

\* No two tools work on one id.
IdsDiffer ==
    \A p, q \in Proc :
        proc[p].tool # "none" /\ proc[q].tool # "none" /\ p # q => proc[p].id # proc[q].id

DrillOK ==
    /\ MapsOK /\ ExportOK /\ IdsDiffer
    /\ \A r \in Restore : RunOK(r)
    /\ \A p \in Proc : ToolOK(p)

-----------------------------------------------------------------------------
(* A step of one tool.                                                        *)

IsTools(f) == f = [q \in Proc |-> f[q]] /\ \A q \in Proc : IsTool(f[q])

\* An array of tools in which that of p has gone on, with these values.
With(f, p, pc, mine, from, pass) ==
    /\ IsTools(f) /\ \A q \in Proc \ {p} : f[q] = proc[q]
    /\ f[p].tool = proc[p].tool /\ f[p].id = proc[p].id
    /\ f[p].pc = pc /\ f[p].mine = mine
    /\ f[p].from = from /\ f[p].pass = pass

\* The whole record of a tool, or one field after the other.
LEMMA Whole ==
    ASSUME MapsOK, NEW p \in Proc, NEW t, IsTool(t), proc' = [proc EXCEPT ![p] = t]
    PROVE  IsTools(proc') /\ proc'[p] = t /\ \A q \in Proc \ {p} : proc'[q] = proc[q]
BY DEF MapsOK, IsTools

(* A tool that only moves on. *)
LEMMA SetPc ==
    ASSUME MapsOK, NEW p \in Proc, NEW a, proc' = [proc EXCEPT ![p].pc = a]
    PROVE  With(proc', p, a, proc[p].mine, proc[p].from, proc[p].pass)
BY DEF MapsOK, IsTool, IsTools, With

(* A tool that moves on and remembers an object it created. *)
LEMMA AddMine ==
    ASSUME MapsOK, NEW p \in Proc, NEW a, NEW x,
           proc' = [proc EXCEPT ![p].pc = a, ![p].mine = @ \cup {x}]
    PROVE  With(proc', p, a, proc[p].mine \cup {x}, proc[p].from, proc[p].pass)
<1> DEFINE f1 == [proc EXCEPT ![p].pc = a]
           v2 == proc[p].mine \cup {x}
           f2 == [f1 EXCEPT ![p].mine = v2]
<1>1. proc' = f2
  BY DEF MapsOK, IsTool
<1> HIDE DEF v2
<1>2. With(f1, p, a, proc[p].mine, proc[p].from, proc[p].pass)
  BY DEF MapsOK, With, IsTool, IsTools
<1> HIDE DEF f1
<1>3. With(f2, p, a, v2, proc[p].from, proc[p].pass)
  BY <1>2 DEF With, IsTool, IsTools
<1> HIDE DEF f2
<1> QED
  BY <1>1, <1>3, Zenon DEF v2

(* A tool that moves on and forgets an object it removed. *)
LEMMA DropMine ==
    ASSUME MapsOK, NEW p \in Proc, NEW a, NEW x,
           proc' = [proc EXCEPT ![p].pc = a, ![p].mine = @ \ {x}]
    PROVE  With(proc', p, a, proc[p].mine \ {x}, proc[p].from, proc[p].pass)
<1> DEFINE f1 == [proc EXCEPT ![p].pc = a]
           v2 == proc[p].mine \ {x}
           f2 == [f1 EXCEPT ![p].mine = v2]
<1>1. proc' = f2
  BY DEF MapsOK, IsTool
<1> HIDE DEF v2
<1>2. With(f1, p, a, proc[p].mine, proc[p].from, proc[p].pass)
  BY DEF MapsOK, With, IsTool, IsTools
<1> HIDE DEF f1
<1>3. With(f2, p, a, v2, proc[p].from, proc[p].pass)
  BY <1>2 DEF With, IsTool, IsTools
<1> HIDE DEF f2
<1> QED
  BY <1>1, <1>3, Zenon DEF v2

(* A restore that moves on with the bundle it was given. *)
LEMMA SetFrom ==
    ASSUME MapsOK, NEW p \in Proc, NEW a, NEW x,
           proc' = [proc EXCEPT ![p].pc = a, ![p].from = x]
    PROVE  With(proc', p, a, proc[p].mine, x, proc[p].pass)
<1> DEFINE f1 == [proc EXCEPT ![p].pc = a]
           f2 == [f1 EXCEPT ![p].from = x]
<1>1. proc' = f2
  BY DEF MapsOK, IsTool
<1>2. With(f1, p, a, proc[p].mine, proc[p].from, proc[p].pass)
  BY SMTT(30) DEF MapsOK, With, IsTool, IsTools
<1> HIDE DEF f1
<1>3. With(f2, p, a, proc[p].mine, x, proc[p].pass)
  BY <1>2 DEF With, IsTool, IsTools
<1> HIDE DEF f2
<1> QED
  BY <1>1, <1>3, Zenon

(* A restore that moves on with the content it read. *)
LEMMA SetSeed ==
    ASSUME MapsOK, NEW p \in Proc, NEW a, NEW x,
           proc' = [proc EXCEPT ![p].pc = a, ![p].seed = x]
    PROVE  With(proc', p, a, proc[p].mine, proc[p].from, proc[p].pass)
<1> DEFINE f1 == [proc EXCEPT ![p].pc = a]
           f2 == [f1 EXCEPT ![p].seed = x]
<1>1. proc' = f2
  BY DEF MapsOK, IsTool
<1>2. With(f1, p, a, proc[p].mine, proc[p].from, proc[p].pass)
  BY SMTT(30) DEF MapsOK, With, IsTool, IsTools
<1> HIDE DEF f1
<1>3. With(f2, p, a, proc[p].mine, proc[p].from, proc[p].pass)
  BY <1>2 DEF With, IsTool, IsTools
<1> HIDE DEF f2
<1> QED
  BY <1>1, <1>3, Zenon

(* A tool that moves on with a verdict. *)
LEMMA SetPass ==
    ASSUME MapsOK, NEW p \in Proc, NEW a, NEW x,
           proc' = [proc EXCEPT ![p].pc = a, ![p].pass = x]
    PROVE  With(proc', p, a, proc[p].mine, proc[p].from, x)
<1> DEFINE f1 == [proc EXCEPT ![p].pc = a]
           f2 == [f1 EXCEPT ![p].pass = x]
<1>1. proc' = f2
  BY DEF MapsOK, IsTool
<1>2. With(f1, p, a, proc[p].mine, proc[p].from, proc[p].pass)
  BY SMTT(30) DEF MapsOK, With, IsTool, IsTools
<1> HIDE DEF f1
<1>3. With(f2, p, a, proc[p].mine, proc[p].from, x)
  BY <1>2 DEF With, IsTool, IsTools
<1> HIDE DEF f2
<1> QED
  BY <1>1, <1>3, Zenon

(* A tool that reports what it leaves behind and forgets the rest. *)
LEMMA Leave ==
    ASSUME MapsOK, NEW p \in Proc, NEW a, NEW x, NEW y,
           proc' = [proc EXCEPT ![p].pc = a, ![p].leftovers = x, ![p].mine = @ \ y]
    PROVE  With(proc', p, a, proc[p].mine \ y, proc[p].from, proc[p].pass)
<1> DEFINE f1 == [proc EXCEPT ![p].pc = a]
           f2 == [f1 EXCEPT ![p].leftovers = x]
           v3 == proc[p].mine \ y
           f3 == [f2 EXCEPT ![p].mine = v3]
<1>1. proc' = f3
  BY DEF MapsOK, IsTool
<1> HIDE DEF v3
<1>2. With(f1, p, a, proc[p].mine, proc[p].from, proc[p].pass)
  BY SMTT(30) DEF MapsOK, With, IsTool, IsTools
<1> HIDE DEF f1
<1>3. With(f2, p, a, proc[p].mine, proc[p].from, proc[p].pass)
  BY <1>2 DEF With, IsTool, IsTools
<1> HIDE DEF f2
<1>4. With(f3, p, a, v3, proc[p].from, proc[p].pass)
  BY <1>3 DEF With, IsTool, IsTools
<1> HIDE DEF f3
<1> QED
  BY <1>1, <1>4, Zenon DEF v3

(* A tool that reports what it leaves behind and keeps a given set. *)
LEMMA Keep ==
    ASSUME MapsOK, NEW p \in Proc, NEW a, NEW x, NEW y,
           proc' = [proc EXCEPT ![p].pc = a, ![p].leftovers = x, ![p].mine = y]
    PROVE  With(proc', p, a, y, proc[p].from, proc[p].pass)
<1> DEFINE f1 == [proc EXCEPT ![p].pc = a]
           f2 == [f1 EXCEPT ![p].leftovers = x]
           f3 == [f2 EXCEPT ![p].mine = y]
<1>1. proc' = f3
  BY DEF MapsOK, IsTool
<1>2. With(f1, p, a, proc[p].mine, proc[p].from, proc[p].pass)
  BY SMTT(30) DEF MapsOK, With, IsTool, IsTools
<1> HIDE DEF f1
<1>3. With(f2, p, a, proc[p].mine, proc[p].from, proc[p].pass)
  BY <1>2 DEF With, IsTool, IsTools
<1> HIDE DEF f2
<1>4. With(f3, p, a, y, proc[p].from, proc[p].pass)
  BY <1>3 DEF With, IsTool, IsTools
<1> HIDE DEF f3
<1> QED
  BY <1>1, <1>4, Zenon

(* A tool that adds to what it leaves behind and keeps a given set. *)
LEMMA Forget ==
    ASSUME MapsOK, NEW p \in Proc, NEW a, NEW x, NEW y,
           proc' = [proc EXCEPT ![p].pc = a, ![p].mine = y, ![p].leftovers = @ \cup x]
    PROVE  With(proc', p, a, y, proc[p].from, proc[p].pass)
<1> DEFINE f1 == [proc EXCEPT ![p].pc = a]
           f2 == [f1 EXCEPT ![p].mine = y]
           v3 == proc[p].leftovers \cup x
           f3 == [f2 EXCEPT ![p].leftovers = v3]
<1>1. proc' = f3
  BY DEF MapsOK, IsTool
<1> HIDE DEF v3
<1>2. With(f1, p, a, proc[p].mine, proc[p].from, proc[p].pass)
  BY DEF MapsOK, With, IsTool, IsTools
<1> HIDE DEF f1
<1>3. With(f2, p, a, y, proc[p].from, proc[p].pass)
  BY <1>2 DEF With, IsTool, IsTools
<1> HIDE DEF f2
<1>4. With(f3, p, a, y, proc[p].from, proc[p].pass)
  BY <1>3 DEF With, IsTool, IsTools
<1> HIDE DEF f3
<1> QED
  BY <1>1, <1>4, Zenon DEF v3

\* A shell in which no tool runs.
LEMMA NoToolOK ==
    ASSUME NEW p \in Proc, proc'[p] = NoTool
    PROVE  ToolOK(p)' /\ proc'[p].tool = "none"
<1>1. proc'[p].tool = "none"
  BY DEF NoTool
<1> QED
  BY <1>1 DEF ToolOK

-----------------------------------------------------------------------------
(* What a step does to its own run, and that it leaves the others alone.      *)

\* Objects, volumes and summaries of other ids than that of p's tool are untouched.
Elsewhere(p) ==
    /\ UNCHANGED <<validated, bundle, staged>>
    /\ data' = [v \in Volume |-> data'[v]]
    /\ \A r \in Restore \ {proc[p].id} :
          /\ \A k \in Kinds : Of(k, r) \in made' <=> Of(k, r) \in made
          /\ data'[Of("volume", r)] = data[Of("volume", r)]
          /\ restored'[r] = restored[r] /\ business'[r] = business[r]

(* A step of one tool keeps what is true of the other tools. *)
LEMMA OthersStay ==
    ASSUME DrillOK, NEW p \in Proc, proc[p].tool # "none", Elsewhere(p),
           NEW q \in Proc \ {p}, proc'[q] = proc[q]
    PROVE  ToolOK(q)'
<1>1. proc[q].tool # "none" => proc[q].id \in Restore \ {proc[p].id}
  BY DEF DrillOK, IdsDiffer, ToolOK
<1>2. proc[q].tool # "none" =>
        /\ Clean(proc[q].id) => Clean(proc[q].id)'
        /\ \A k \in FlowKinds : Of(k, proc[q].id) \in made' => Of(k, proc[q].id) \in made
  BY <1>1 DEF Elsewhere, Clean, FlowKinds, Kinds, Containers
<1>3. ToolOK(q)
  BY DEF DrillOK
<1>4. proc[q].tool = "restore" => RestoreOK(q)'
  BY <1>1, <1>3 DEF ToolOK, RestoreOK, Elsewhere
<1>5. proc[q].tool = "business" => BusinessOK(q)'
  BY <1>1, <1>2, <1>3 DEF ToolOK, BusinessOK, Elsewhere
<1> QED
  BY <1>3, <1>4, <1>5 DEF ToolOK

(* A step of one tool keeps what is true of the other runs. *)
LEMMA RunsStay ==
    ASSUME DrillOK, NEW p \in Proc, Elsewhere(p), NEW r \in Restore \ {proc[p].id}
    PROVE  RunOK(r)'
<1>1. Clean(r) => Clean(r)'
  BY DEF Elsewhere, Clean, FlowKinds, Kinds, Containers
<1> QED
  BY <1>1 DEF DrillOK, RunOK, Elsewhere

\* So it is enough to look at the tool that takes the step and at its run.
LEMMA OwnStep ==
    ASSUME DrillOK, NEW p \in Proc, proc[p].tool # "none", Elsewhere(p),
           restored' = [r \in Restore |-> restored'[r]],
           business' = [r \in Restore |-> business'[r]],
           IsTools(proc'), \A q \in Proc \ {p} : proc'[q] = proc[q],
           proc'[p].tool # "none" => proc'[p].id = proc[p].id,
           ToolOK(p)', NEW own, own = proc[p].id, RunOK(own)'
    PROVE  DrillOK'
<1>1. MapsOK'
  BY DEF DrillOK, MapsOK, IsTools, Elsewhere
<1>2. ExportOK'
  BY DEF DrillOK, ExportOK, Elsewhere
<1>3. IdsDiffer'
  BY DEF DrillOK, IdsDiffer
<1>4. \A r \in Restore : RunOK(r)'
  <2>1. \A r \in Restore \ {own} : RunOK(r)'
    BY RunsStay
  <2> QED
    BY <2>1
<1>5. \A q \in Proc : ToolOK(q)'
  BY OthersStay
<1> QED
  BY <1>1, <1>2, <1>3, <1>4, <1>5 DEF DrillOK

\* A step that writes no summary; only a restore changes the retained volume.
LEMMA QuietStep ==
    ASSUME DrillOK, NEW p \in Proc, proc[p].tool # "none", Elsewhere(p),
           UNCHANGED <<restored, business>>,
           NEW pc, NEW mine, NEW from, NEW pass, With(proc', p, pc, mine, from, pass),
           proc[p].tool = "business" =>
              data'[Of("volume", proc[p].id)] = data[Of("volume", proc[p].id)],
           ToolOK(p)'
    PROVE  DrillOK'
<1>1. /\ restored' = [r \in Restore |-> restored'[r]]
      /\ business' = [r \in Restore |-> business'[r]]
  BY DEF DrillOK, MapsOK
<1>2. /\ IsTools(proc') /\ \A q \in Proc \ {p} : proc'[q] = proc[q]
      /\ proc'[p].id = proc[p].id
  BY DEF With
<1> PICK own : own = proc[p].id
  OBVIOUS
<1>3. RunOK(own) /\ ToolOK(p) /\ own \in Restore
  BY DEF DrillOK, ToolOK
<1>4. RunOK(own)'
  <2>1. CASE proc[p].tool = "restore"
    BY <1>2, <1>3, <2>1 DEF RunOK, ToolOK, RestoreOK
  <2>2. CASE proc[p].tool = "business"
    BY <1>2, <1>3, <2>2 DEF RunOK, ToolOK, BusinessOK, Elsewhere
  <2> QED
    BY <1>3, <2>1, <2>2, SMTT(30) DEF ToolOK
<1> QED
  BY <1>1, <1>2, <1>4, OwnStep

-----------------------------------------------------------------------------
(* The calls that the tools are made of.                                      *)

(* The names of the objects of different runs and kinds differ. *)
LEMMA Names ==
    /\ \A k, l, r, s : Of(k, r) = Of(l, s) <=> k = l /\ r = s
    /\ \A r \in Restore : Of("volume", r) \in Volume
BY DEF Of, Volume

\* The failure path claims nothing, but it still knows what to remove.
LEMMA GiveUp ==
    ASSUME DrillOK, NEW p \in Proc, proc[p].tool # "none", proc[p].pc # "report",
           UNCHANGED <<validated, restored, business>>,
           NEW mine \in SUBSET proc[p].mine,
           With(proc', p, "cleanup", mine, proc[p].from, proc[p].pass)
    PROVE  ToolOK(p)'
<1>1. ToolOK(p) /\ proc[p].tool \in {"restore", "business"}
  BY DEF DrillOK, ToolOK
<1>2. CASE proc[p].tool = "restore"
  BY <1>1, <1>2 DEF ToolOK, With, RestoreOK, RestorePc
<1>3. CASE proc[p].tool = "business"
  BY <1>1, <1>3 DEF ToolOK, With, BusinessOK, BusinessPc
<1> QED
  BY <1>1, <1>2, <1>3

\* docker run and docker create: one object of the run's own.
LEMMA Creates ==
    ASSUME DrillOK, NEW p \in Proc, proc[p].tool # "none", NEW kind \in Kinds, NEW next,
           DockerCreate(p, kind, next)
    PROVE  /\ Elsewhere(p) /\ UNCHANGED <<restored, business, validated>>
           /\ \A k \in Kinds \ {kind} :
                 Of(k, proc[p].id) \in made' <=> Of(k, proc[p].id) \in made
           /\ kind # "volume" =>
                 data'[Of("volume", proc[p].id)] = data[Of("volume", proc[p].id)]
           /\ \/ With(proc', p, "cleanup", proc[p].mine, proc[p].from, proc[p].pass)
              \/ With(proc', p, next, proc[p].mine \cup {Own(p, kind)}, proc[p].from,
                      proc[p].pass)
<1> DEFINE x == Own(p, kind)
<1>0. MapsOK /\ proc[p].id \in Restore
  BY DEF DrillOK, ToolOK
<1>1. UNCHANGED <<validated, bundle, staged, restored, business>>
  BY DEF DockerCreate, vaultVars
<1>2. made' = made \/ made' = made \cup {x}
  BY DEF DockerCreate
<1>3. /\ data' = [v \in Volume |-> data'[v]]
      /\ \A v \in Volume : v # x => data'[v] = data[v]
  <2>1. PICK m : data' = [v \in Volume |-> IF v = x /\ x \in m \ made THEN Empty ELSE data[v]]
    BY DEF DockerCreate
  <2> QED
    BY <2>1
<1>4. \/ With(proc', p, "cleanup", proc[p].mine, proc[p].from, proc[p].pass)
      \/ With(proc', p, next, proc[p].mine \cup {x}, proc[p].from, proc[p].pass)
  <2>1. \/ proc' = [proc EXCEPT ![p].pc = next, ![p].mine = @ \cup {x}]
        \/ proc' = [proc EXCEPT ![p].pc = "cleanup"]
    BY DEF DockerCreate, Fail
  <2>2. ASSUME proc' = [proc EXCEPT ![p].pc = next, ![p].mine = @ \cup {x}]
        PROVE  With(proc', p, next, proc[p].mine \cup {x}, proc[p].from, proc[p].pass)
    BY <1>0, <2>2, AddMine, Zenon
  <2>3. ASSUME proc' = [proc EXCEPT ![p].pc = "cleanup"]
        PROVE  With(proc', p, "cleanup", proc[p].mine, proc[p].from, proc[p].pass)
    BY <1>0, <2>3, SetPc, Zenon
  <2> QED
    BY <2>1, <2>2, <2>3
<1>5. \A k \in Kinds, r \in Restore : Of(k, r) # x =>
         (Of(k, r) \in made' <=> Of(k, r) \in made)
  BY <1>2
<1>6. \A k, r : Of(k, r) = x <=> k = kind /\ r = proc[p].id
  BY Names DEF Own
<1>7. Elsewhere(p)
  BY <1>1, <1>3, <1>5, <1>6, Names DEF Elsewhere
<1> QED
  BY <1>0, <1>1, <1>3, <1>4, <1>5, <1>6, <1>7, Names

\* A call that removes one container.
LEMMA Removes ==
    ASSUME DrillOK, NEW p \in Proc, proc[p].tool # "none", NEW kind \in Kinds, NEW next,
           DockerRemove(p, kind, next)
    PROVE  /\ Elsewhere(p) /\ UNCHANGED <<restored, business, validated, data>>
           /\ \/ With(proc', p, "cleanup", proc[p].mine, proc[p].from, proc[p].pass)
              \/ With(proc', p, next, proc[p].mine \ {Own(p, kind)}, proc[p].from,
                      proc[p].pass)
<1> DEFINE x == Own(p, kind)
<1>0. MapsOK /\ proc[p].id \in Restore
  BY DEF DrillOK, ToolOK
<1>1. UNCHANGED <<validated, bundle, staged, restored, business, data>>
  BY DEF DockerRemove, vaultVars
<1>2. made' = made \/ made' = made \ {x}
  BY DEF DockerRemove
<1>4. \/ With(proc', p, "cleanup", proc[p].mine, proc[p].from, proc[p].pass)
      \/ With(proc', p, next, proc[p].mine \ {x}, proc[p].from, proc[p].pass)
  <2>1. \/ proc' = [proc EXCEPT ![p].pc = next, ![p].mine = @ \ {x}]
        \/ proc' = [proc EXCEPT ![p].pc = "cleanup"]
    BY DEF DockerRemove, Fail
  <2>2. ASSUME proc' = [proc EXCEPT ![p].pc = next, ![p].mine = @ \ {x}]
        PROVE  With(proc', p, next, proc[p].mine \ {x}, proc[p].from, proc[p].pass)
    BY <1>0, <2>2, DropMine, Zenon
  <2>3. ASSUME proc' = [proc EXCEPT ![p].pc = "cleanup"]
        PROVE  With(proc', p, "cleanup", proc[p].mine, proc[p].from, proc[p].pass)
    BY <1>0, <2>3, SetPc, Zenon
  <2> QED
    BY <2>1, <2>2, <2>3
<1>5. \A k, r : Of(k, r) = x <=> k = kind /\ r = proc[p].id
  BY Names DEF Own
<1>6. Elsewhere(p)
  BY <1>0, <1>1, <1>2, <1>5 DEF Elsewhere, MapsOK
<1> QED
  BY <1>1, <1>4, <1>6

\* A step that only reads.
LEMMA Checks ==
    ASSUME DrillOK, NEW p \in Proc, proc[p].tool # "none", NEW ok, NEW next,
           Check(p, ok, next)
    PROVE  /\ Elsewhere(p) /\ UNCHANGED <<restored, business, validated, data, made>>
           /\ \/ With(proc', p, "cleanup", proc[p].mine, proc[p].from, proc[p].pass)
              \/ With(proc', p, next, proc[p].mine, proc[p].from, proc[p].pass) /\ ok
<1>0. MapsOK
  BY DEF DrillOK
<1>1. UNCHANGED <<validated, bundle, staged, restored, business, data, made>>
  BY DEF Check, vaultVars
<1>2. \/ proc' = [proc EXCEPT ![p].pc = next] /\ ok
      \/ proc' = [proc EXCEPT ![p].pc = "cleanup"]
  BY DEF Check, Fail, Go
<1>3. ASSUME proc' = [proc EXCEPT ![p].pc = next]
      PROVE  With(proc', p, next, proc[p].mine, proc[p].from, proc[p].pass)
  BY <1>0, <1>3, SetPc, Zenon
<1>4. ASSUME proc' = [proc EXCEPT ![p].pc = "cleanup"]
      PROVE  With(proc', p, "cleanup", proc[p].mine, proc[p].from, proc[p].pass)
  BY <1>0, <1>4, SetPc, Zenon
<1>5. Elsewhere(p)
  BY <1>0, <1>1 DEF Elsewhere, MapsOK
<1> QED
  BY <1>1, <1>2, <1>3, <1>4, <1>5

-----------------------------------------------------------------------------
(* run_isolated_restore.                                                      *)

\* What a restore has to keep when it goes on.
LEMMA RestoreGoes ==
    ASSUME DrillOK, NEW p \in Proc, proc[p].tool = "restore", proc[p].pc # "report",
           UNCHANGED <<validated, restored, business>>,
           NEW next \in RestorePc, NEW mine,
           With(proc', p, next, mine, proc[p].from, proc[p].pass),
           \A x \in mine : x \in proc[p].mine \/ \E k \in Kinds : x = Own(p, k),
           next # "bundle" => proc[p].from # None \/ next \in {"cleanup", "report"},
           next \in {"target", "compare", "untarget", "finish"} =>
              data'[Of("volume", proc[p].id)] = proc[p].from.backup
    PROVE  ToolOK(p)'
<1>1. ToolOK(p) /\ RestoreOK(p) /\ proc[p].id \in Restore
  BY DEF DrillOK, ToolOK
<1>2. RestoreOK(p)'
  BY <1>1 DEF RestoreOK, With, RestorePc
<1>3. \A x \in mine : \E k \in Kinds : x = Of(k, proc[p].id)
  BY <1>1 DEF ToolOK, Own
<1> QED
  BY <1>1, <1>2, <1>3 DEF ToolOK, With

(* The three docker creations of the restore preserve the invariant. *)
LEMMA RestoreCreates ==
    ASSUME DrillOK, NEW p \in Proc,
           RestoreBaseline(p) \/ RestoreVolume(p) \/ RestoreTarget(p)
    PROVE  DrillOK'
<1>1. PICK kind \in {"baseline", "volume", "target"}, next \in {"read", "seed", "compare"} :
        /\ DockerCreate(p, kind, next) /\ proc[p].tool # "none"
        /\ proc[p].pc \in {"baseline", "volume", "target"}
        /\ next = "compare" => proc[p].pc = "target" /\ kind # "volume"
  BY DEF RestoreBaseline, RestoreVolume, RestoreTarget, At
<1>2. /\ proc[p].tool = "restore" /\ RestoreOK(p)
      /\ \A x \in proc[p].mine : \E k \in Kinds : x = Own(p, k)
  BY <1>1 DEF DrillOK, ToolOK, BusinessOK, BusinessPc, Own
<1>3. kind \in Kinds
  BY DEF Kinds, Containers
<1>4. /\ Elsewhere(p) /\ UNCHANGED <<restored, business, validated>>
      /\ kind # "volume" =>
            data'[Of("volume", proc[p].id)] = data[Of("volume", proc[p].id)]
      /\ \/ With(proc', p, "cleanup", proc[p].mine, proc[p].from, proc[p].pass)
         \/ With(proc', p, next, proc[p].mine \cup {Own(p, kind)}, proc[p].from, proc[p].pass)
  BY <1>1, <1>3, Creates
<1>5. CASE With(proc', p, "cleanup", proc[p].mine, proc[p].from, proc[p].pass)
  <2>1. ToolOK(p)'
    BY <1>1, <1>4, <1>5, GiveUp
  <2> QED
    BY <1>2, <1>4, <1>5, <2>1, QuietStep
<1>6. CASE With(proc', p, next, proc[p].mine \cup {Own(p, kind)}, proc[p].from, proc[p].pass)
  <2>1. /\ next \in RestorePc /\ proc[p].from # None
        /\ next \in {"target", "compare", "untarget", "finish"} =>
              data'[Of("volume", proc[p].id)] = proc[p].from.backup
    <3>1. next \in RestorePc /\ (next \in {"target", "compare", "untarget", "finish"} => next = "compare")
      BY DEF RestorePc
    <3>2. proc[p].from # None
      BY <1>1, <1>2 DEF RestoreOK
    <3>3. ASSUME next = "compare" PROVE data[Of("volume", proc[p].id)] = proc[p].from.backup
      BY <1>1, <1>2, <3>3 DEF RestoreOK
    <3>4. ASSUME next = "compare"
          PROVE  data'[Of("volume", proc[p].id)] = data[Of("volume", proc[p].id)]
      BY <1>1, <1>4, <3>4
    <3> QED BY <3>1, <3>2, <3>3, <3>4
  <2> DEFINE mine == proc[p].mine \cup {Own(p, kind)}
  <2>2. With(proc', p, next, mine, proc[p].from, proc[p].pass)
    BY <1>6
  <2>3. \A x \in mine : x \in proc[p].mine \/ \E k \in Kinds : x = Own(p, k)
    BY <1>3
  <2>4. proc[p].pc # "report" /\ UNCHANGED <<validated, restored, business>>
    BY <1>1, <1>4
  <2>5. next # "bundle" => proc[p].from # None \/ next \in {"cleanup", "report"}
    BY <2>1
  <2> HIDE DEF mine
  <2>6. ToolOK(p)'
    BY <1>2, <2>1, <2>2, <2>3, <2>4, <2>5, RestoreGoes
  <2> QED
    BY <1>2, <1>4, <2>2, <2>6, QuietStep
<1> QED
  BY <1>4, <1>5, <1>6

(* The two docker removals of the restore preserve the invariant. *)
LEMMA RestoreRemoves ==
    ASSUME DrillOK, NEW p \in Proc, RestoreUnbaseline(p) \/ RestoreUntarget(p)
    PROVE  DrillOK'
<1>1. PICK kind \in {"baseline", "target"}, next \in {"volume", "finish"} :
        /\ DockerRemove(p, kind, next) /\ proc[p].tool # "none"
        /\ proc[p].pc \in {"unbaseline", "untarget"}
        /\ next = "finish" => proc[p].pc = "untarget"
  BY DEF RestoreUnbaseline, RestoreUntarget, At
<1>2. proc[p].tool = "restore" /\ RestoreOK(p)
  BY <1>1 DEF DrillOK, ToolOK, BusinessOK, BusinessPc
<1>3. kind \in Kinds
  BY DEF Kinds, Containers
<1>4. /\ Elsewhere(p) /\ UNCHANGED <<restored, business, validated, data>>
      /\ \/ With(proc', p, "cleanup", proc[p].mine, proc[p].from, proc[p].pass)
         \/ With(proc', p, next, proc[p].mine \ {Own(p, kind)}, proc[p].from, proc[p].pass)
  BY <1>1, <1>3, Removes, Zenon
<1>5. CASE With(proc', p, "cleanup", proc[p].mine, proc[p].from, proc[p].pass)
  <2>1. ToolOK(p)'
    BY <1>1, <1>4, <1>5, GiveUp
  <2> QED
    BY <1>2, <1>4, <1>5, <2>1, QuietStep
<1>6. CASE With(proc', p, next, proc[p].mine \ {Own(p, kind)}, proc[p].from, proc[p].pass)
  <2>1. /\ next \in RestorePc /\ proc[p].from # None
        /\ next \in {"target", "compare", "untarget", "finish"} =>
              data'[Of("volume", proc[p].id)] = proc[p].from.backup
    BY <1>1, <1>2, <1>4 DEF RestorePc, RestoreOK
  <2> DEFINE mine == proc[p].mine \ {Own(p, kind)}
  <2>2. With(proc', p, next, mine, proc[p].from, proc[p].pass)
    BY <1>6
  <2>3. \A x \in mine : x \in proc[p].mine \/ \E k \in Kinds : x = Own(p, k)
    BY <1>3
  <2>4. proc[p].pc # "report" /\ UNCHANGED <<validated, restored, business>>
    BY <1>1, <1>4
  <2>5. next # "bundle" => proc[p].from # None \/ next \in {"cleanup", "report"}
    BY <2>1
  <2> HIDE DEF mine
  <2>6. ToolOK(p)'
    BY <1>2, <2>1, <2>2, <2>3, <2>4, <2>5, RestoreGoes
  <2> QED
    BY <1>2, <1>4, <2>2, <2>6, QuietStep
<1> QED
  BY <1>4, <1>5, <1>6

(* The comparison that decides the restore preserves the invariant. *)
LEMMA RestoreCompares ==
    ASSUME DrillOK, NEW p \in Proc, RestoreCompare(p)
    PROVE  DrillOK'
<1>1. /\ Check(p, data[Own(p, "volume")] = proc[p].seed, "untarget")
      /\ proc[p].tool # "none" /\ proc[p].pc = "compare"
  BY DEF RestoreCompare, At
<1>2. proc[p].tool = "restore" /\ RestoreOK(p)
  BY <1>1 DEF DrillOK, ToolOK, BusinessOK, BusinessPc
<1>3. /\ Elsewhere(p) /\ UNCHANGED <<restored, business, validated, data, made>>
      /\ \/ With(proc', p, "cleanup", proc[p].mine, proc[p].from, proc[p].pass)
         \/ With(proc', p, "untarget", proc[p].mine, proc[p].from, proc[p].pass)
  <2> PICK ok : ok <=> data[Own(p, "volume")] = proc[p].seed
    BY Zenon
  <2>1. Check(p, ok, "untarget")
    BY <1>1 DEF Check
  <2> QED
    BY <1>1, <2>1, Checks
<1>4. ToolOK(p)'
  BY <1>1, <1>2, <1>3, GiveUp, RestoreGoes, Zenon DEF RestorePc, RestoreOK
<1> QED
  BY <1>2, <1>3, <1>4, QuietStep

\* The bundle was validated and binds its snapshot: the run may use it.
LEMMA RestoreTakesBundle ==
    ASSUME DrillOK, NEW p \in Proc, RestoreBundle(p)
    PROVE  DrillOK'
<1>0. MapsOK /\ ToolOK(p)
  BY DEF DrillOK
<1>1. /\ proc[p].tool = "restore" /\ proc[p].pc = "bundle" /\ RestoreOK(p)
      /\ proc[p].id \in Restore
  BY <1>0 DEF RestoreBundle, At, ToolOK, BusinessOK, BusinessPc
<1>2. UNCHANGED <<validated, bundle, staged, restored, business, data, made>>
  BY DEF RestoreBundle, vaultVars
<1>3. Elsewhere(p)
  BY <1>0, <1>2 DEF Elsewhere, MapsOK
<1> PICK from : from = staged[proc[p].id]
  OBVIOUS
<1>4. \/ proc' = [proc EXCEPT ![p].pc = "cleanup"]
      \/ /\ proc' = [proc EXCEPT ![p].pc = "baseline", ![p].from = from]
         /\ from # None /\ from.payload = from.backup
  BY DEF RestoreBundle, Fail, StagedFilesBind
<1>5. CASE proc' = [proc EXCEPT ![p].pc = "cleanup"]
  <2>1. With(proc', p, "cleanup", proc[p].mine, proc[p].from, proc[p].pass)
    BY <1>0, <1>5, SetPc, Zenon
  <2>2. ToolOK(p)'
    BY <1>1, <1>2, <2>1, GiveUp, Zenon
  <2> QED
    BY <1>1, <1>2, <1>3, <2>1, <2>2, QuietStep, Zenon
<1>6. CASE /\ proc' = [proc EXCEPT ![p].pc = "baseline", ![p].from = from]
           /\ from # None /\ from.payload = from.backup
  <2>1. With(proc', p, "baseline", proc[p].mine, from, proc[p].pass)
    BY <1>0, <1>6, SetFrom, Zenon
  <2>2. from.backup \in validated
    BY <1>1, <1>6 DEF DrillOK, ExportOK
  <2>3. RestoreOK(p)'
    BY <1>1, <1>2, <1>6, <2>1, <2>2 DEF RestoreOK, With, RestorePc
  <2>4. ToolOK(p)'
    BY <1>0, <1>1, <2>1, <2>3 DEF ToolOK, With
  <2> QED
    BY <1>1, <1>2, <1>3, <2>1, <2>4, QuietStep, Zenon
<1> QED
  BY <1>4, <1>5, <1>6

(* Reading the bundle's data preserves the invariant. *)
LEMMA RestoreReads ==
    ASSUME DrillOK, NEW p \in Proc, RestoreRead(p)
    PROVE  DrillOK'
<1>0. MapsOK
  BY DEF DrillOK
<1>1. /\ proc[p].tool = "restore" /\ proc[p].pc = "read" /\ RestoreOK(p)
  BY DEF RestoreRead, At, DrillOK, ToolOK, BusinessOK, BusinessPc
<1>2. UNCHANGED <<validated, bundle, staged, restored, business, data, made>>
  BY DEF RestoreRead, vaultVars
<1>3. Elsewhere(p)
  BY <1>0, <1>2 DEF Elsewhere, MapsOK
<1> PICK seed : seed = proc[p].from.payload
  OBVIOUS
<1>4. \/ proc' = [proc EXCEPT ![p].pc = "cleanup"]
      \/ proc' = [proc EXCEPT ![p].pc = "unbaseline", ![p].seed = seed]
  BY DEF RestoreRead, Fail
<1>5. \/ With(proc', p, "cleanup", proc[p].mine, proc[p].from, proc[p].pass)
      \/ With(proc', p, "unbaseline", proc[p].mine, proc[p].from, proc[p].pass)
  BY <1>0, <1>4, SetPc, SetSeed, Zenon
<1>6. ToolOK(p)'
  BY <1>1, <1>2, <1>5, GiveUp, RestoreGoes, Zenon DEF RestorePc, RestoreOK
<1> QED
  BY <1>1, <1>2, <1>3, <1>5, <1>6, QuietStep

\* The volume of the run gets the snapshot of the bundle.
LEMMA RestoreSeeds ==
    ASSUME DrillOK, NEW p \in Proc, RestoreSeed(p)
    PROVE  DrillOK'
<1>0. MapsOK
  BY DEF DrillOK
<1>1. /\ proc[p].tool = "restore" /\ proc[p].pc = "seed" /\ RestoreOK(p)
      /\ proc[p].id \in Restore
  BY DEF RestoreSeed, At, DrillOK, ToolOK, BusinessOK, BusinessPc
<1>2. UNCHANGED <<validated, bundle, staged, restored, business, made>>
  BY DEF RestoreSeed, vaultVars
<1>3. \/ /\ With(proc', p, "cleanup", proc[p].mine, proc[p].from, proc[p].pass)
         /\ data' = data
      \/ /\ With(proc', p, "target", proc[p].mine, proc[p].from, proc[p].pass)
         /\ data' = [data EXCEPT ![Of("volume", proc[p].id)] = proc[p].from.payload]
  BY <1>0, SetPc, Zenon DEF RestoreSeed, Fail, Go, Own
<1>4. /\ data' = [v \in Volume |-> data'[v]]
      /\ \A v \in Volume : v # Of("volume", proc[p].id) => data'[v] = data[v]
  BY <1>0, <1>3 DEF MapsOK
<1>5. Elsewhere(p)
  BY <1>2, <1>4, Names DEF Elsewhere
<1>6. CASE With(proc', p, "cleanup", proc[p].mine, proc[p].from, proc[p].pass)
  <2>1. ToolOK(p)'
    BY <1>1, <1>2, <1>6, GiveUp
  <2> QED
    BY <1>1, <1>2, <1>5, <1>6, <2>1, QuietStep
<1>7. CASE /\ With(proc', p, "target", proc[p].mine, proc[p].from, proc[p].pass)
           /\ data' = [data EXCEPT ![Of("volume", proc[p].id)] = proc[p].from.payload]
  <2>1. data'[Of("volume", proc[p].id)] = proc[p].from.backup /\ proc[p].from # None
    BY <1>0, <1>1, <1>7, Names DEF MapsOK, RestoreOK
  <2>2. ToolOK(p)'
    BY <1>1, <1>2, <1>7, <2>1, RestoreGoes, Zenon DEF RestorePc
  <2> QED
    BY <1>1, <1>2, <1>5, <1>7, <2>2, QuietStep
<1> QED
  BY <1>3, <1>6, <1>7

\* Only what the run remembers is removed.
LEMMA RestoreCleansUp ==
    ASSUME DrillOK, NEW p \in Proc, RestoreCleanup(p)
    PROVE  DrillOK'
<1>0. MapsOK
  BY DEF DrillOK
<1>1. /\ proc[p].tool = "restore" /\ proc[p].pc = "cleanup" /\ proc[p].id \in Restore
      /\ \A x \in proc[p].mine : \E k \in Kinds : x = Of(k, proc[p].id)
  BY DEF RestoreCleanup, At, DrillOK, ToolOK
<1>2. UNCHANGED <<validated, bundle, staged, restored, business>>
  BY DEF RestoreCleanup, vaultVars
<1>3. PICK gone, left :
        /\ gone \subseteq proc[p].mine /\ made' = made \ gone
        /\ data' = [v \in Volume |-> IF v \in gone THEN None ELSE data[v]]
        /\ proc' = [proc EXCEPT ![p].pc = "report", ![p].leftovers = left,
                                ![p].mine = @ \ gone]
  <2>1. PICK F : LET tried == RestoreTried(p, F)
                     gone == Removed(tried, F)
                 IN  /\ made' = made \ gone
                     /\ data' = [v \in Volume |-> IF v \in gone THEN None ELSE data[v]]
                     /\ proc' = [proc EXCEPT ![p].pc = "report",
                                    ![p].leftovers = tried \ gone, ![p].mine = @ \ gone]
    BY Zenon DEF RestoreCleanup
  <2>2. Removed(RestoreTried(p, F), F) \subseteq proc[p].mine
    BY DEF Removed, RestoreTried
  <2> QED
    BY <2>1, <2>2, Zenon
<1> PICK mine : mine = proc[p].mine \ gone
  BY Zenon
<1>4. With(proc', p, "report", mine, proc[p].from, proc[p].pass) /\ mine \subseteq proc[p].mine
  <2>1. With(proc', p, "report", proc[p].mine \ gone, proc[p].from, proc[p].pass)
    BY <1>0, <1>3, Leave, Zenon
  <2> QED
    BY <2>1
<1>5. \A k, r : r # proc[p].id => Of(k, r) \notin gone
  BY <1>1, <1>3, Names
<1>6. Elsewhere(p)
  BY <1>2, <1>3, <1>5, Names DEF Elsewhere
<1>7. ToolOK(p)'
  BY <1>1, <1>2, <1>4, RestoreGoes, Zenon DEF RestorePc
<1> QED
  BY <1>1, <1>2, <1>4, <1>6, <1>7, QuietStep

\* The summary says what the run knows; it is the first of this id.
LEMMA RestoreReports ==
    ASSUME DrillOK, NEW p \in Proc, RestoreReport(p)
    PROVE  DrillOK'
<1>0. MapsOK
  BY DEF DrillOK
<1>1. proc[p].tool = "restore" /\ RestoreOK(p) /\ proc[p].id \in Restore
  BY DEF RestoreReport, DrillOK, ToolOK
<1> PICK own : own = proc[p].id
  OBVIOUS
<1>2. /\ UNCHANGED <<validated, bundle, staged, business, made, data>>
      /\ restored' = [restored EXCEPT ![own] = Report(p)]
      /\ proc' = [proc EXCEPT ![p] = NoTool]
  BY <1>1, Zenon DEF RestoreReport, vaultVars, RestoreOK
<1>3. /\ IsTools(proc') /\ proc'[p] = NoTool
      /\ \A q \in Proc \ {p} : proc'[q] = proc[q]
  <2>1. IsTool(NoTool)
    BY Zenon DEF IsTool, NoTool
  <2> QED
    BY <1>0, <1>2, <2>1, Whole, Zenon
<1>4. /\ restored' = [r \in Restore |-> restored'[r]] /\ restored'[own] = Report(p)
      /\ \A r \in Restore \ {own} : restored'[r] = restored[r]
  BY <1>0, <1>1, <1>2 DEF MapsOK
<1>5. Elsewhere(p)
  BY <1>0, <1>2, <1>4 DEF Elsewhere, MapsOK
<1>6. ToolOK(p)'
  BY <1>3, NoToolOK
<1>7. RunOK(own)'
  <2>1. business[own] = None
    BY <1>1 DEF DrillOK, RunOK, RestoreOK
  <2>2. proc[p].pass =>
          /\ proc[p].from # None /\ proc[p].from.backup \in validated
          /\ data[Of("volume", own)] = proc[p].from.backup
    BY <1>1 DEF RestoreOK
  <2> QED
    BY <1>2, <1>4, <2>1, <2>2 DEF RunOK, Report
<1> QED
  BY <1>0, <1>1, <1>2, <1>3, <1>4, <1>5, <1>6, <1>7, OwnStep, SMTT(30) DEF MapsOK, NoTool

-----------------------------------------------------------------------------
(* run_business_validation, and the steps both tools have.                    *)

\* What a business run has to keep when it goes on.
LEMMA BusinessGoes ==
    ASSUME DrillOK, NEW p \in Proc, proc[p].tool = "business", proc[p].pc # "report",
           UNCHANGED <<validated, restored, business>>,
           NEW next \in BusinessPc, NEW mine,
           With(proc', p, next, mine, proc[p].from, proc[p].pass),
           \A x \in mine :
              x \in proc[p].mine \/ \E k \in Kinds \ {"volume"} : x = Own(p, k),
           next \notin {"cleanup", "report"} =>
              \A k \in FlowKinds : Of(k, proc[p].id) \in made' => Of(k, proc[p].id) \in mine,
           next \in {"audit2", "audited2", "finish"} =>
              \A k \in FlowKinds : Of(k, proc[p].id) \notin made'
    PROVE  ToolOK(p)'
<1>1. ToolOK(p) /\ BusinessOK(p) /\ proc[p].id \in Restore
  BY Zenon DEF DrillOK, ToolOK
<1>2. \A x \in mine : \E k \in Kinds : x = Of(k, proc[p].id)
  BY <1>1, Zenon DEF ToolOK, Own
<1>3. \A k \in Kinds : Of(k, proc[p].id) \in mine => k # "volume"
  BY <1>1, Names, SMTT(30) DEF BusinessOK, Own
<1>4. BusinessOK(p)'
  BY <1>1, <1>3, Zenon DEF BusinessOK, With, BusinessPc, Clean
<1> QED
  BY <1>1, <1>2, <1>4, Zenon DEF ToolOK, With

(* The docker creations of the business run preserve the invariant. *)
LEMMA BusinessCreates ==
    ASSUME DrillOK, NEW p \in Proc,
           \/ BusinessAudit(p) \/ BusinessWork(p) \/ BusinessNetwork(p)
           \/ BusinessRedis(p) \/ BusinessApp(p) \/ BusinessAuditAgain(p)
    PROVE  DrillOK'
<1>1. PICK kind \in {"audit", "work", "network", "redis", "app"},
           next \in {"audited", "clone", "redis", "app", "healthy", "audited2"} :
        /\ DockerCreate(p, kind, next) /\ proc[p].tool # "none"
        /\ proc[p].pc \in {"audit", "work", "network", "redis", "app", "audit2"}
        /\ next = "audited2" <=> proc[p].pc = "audit2"
        /\ next = "audited2" => kind = "audit"
  BY Zenon DEF BusinessAudit, BusinessWork, BusinessNetwork, BusinessRedis, BusinessApp,
         BusinessAuditAgain, At
<1>2. proc[p].tool = "business" /\ BusinessOK(p)
  BY <1>1 DEF DrillOK, ToolOK, RestoreOK, RestorePc
<1>3. kind \in Kinds /\ kind # "volume" /\ FlowKinds \subseteq Kinds
  BY DEF Kinds, Containers, FlowKinds
<1>4. /\ Elsewhere(p) /\ UNCHANGED <<restored, business, validated>>
      /\ \A k \in Kinds \ {kind} :
            Of(k, proc[p].id) \in made' <=> Of(k, proc[p].id) \in made
      /\ data'[Of("volume", proc[p].id)] = data[Of("volume", proc[p].id)]
      /\ \/ With(proc', p, "cleanup", proc[p].mine, proc[p].from, proc[p].pass)
         \/ With(proc', p, next, proc[p].mine \cup {Own(p, kind)}, proc[p].from, proc[p].pass)
  BY <1>1, <1>3, Creates, Zenon
<1>5. CASE With(proc', p, "cleanup", proc[p].mine, proc[p].from, proc[p].pass)
  <2>1. ToolOK(p)'
    BY <1>1, <1>4, <1>5, GiveUp, Zenon
  <2> QED
    BY <1>2, <1>4, <1>5, <2>1, QuietStep, Zenon
<1>6. CASE With(proc', p, next, proc[p].mine \cup {Own(p, kind)}, proc[p].from, proc[p].pass)
  <2> PICK mine : mine = proc[p].mine \cup {Own(p, kind)}
    BY Zenon
  <2>1. next \in BusinessPc
    BY DEF BusinessPc
  <2>2. \A k \in FlowKinds : Of(k, proc[p].id) \in made' => Of(k, proc[p].id) \in mine
    BY <1>1, <1>2, <1>3, <1>4, Zenon DEF BusinessOK, Own, Clean
  <2>3. next \in {"audit2", "audited2", "finish"} =>
          \A k \in FlowKinds : Of(k, proc[p].id) \notin made'
    BY <1>1, <1>2, <1>3, <1>4, Zenon DEF BusinessOK, Clean, FlowKinds
  <2>4. With(proc', p, next, mine, proc[p].from, proc[p].pass)
    BY <1>6, Zenon
  <2>5. \A x \in mine : x \in proc[p].mine \/ \E k \in Kinds \ {"volume"} : x = Own(p, k)
    BY <1>3, Zenon
  <2>6. ToolOK(p)'
    BY <1>1, <1>2, <1>4, <2>1, <2>2, <2>3, <2>4, <2>5, BusinessGoes, Zenon
  <2> QED
    BY <1>2, <1>4, <1>6, <2>6, QuietStep, Zenon
<1> QED
  BY <1>4, <1>5, <1>6, Zenon

(* A check that the business run makes preserves the invariant. *)
LEMMA BusinessReads ==
    ASSUME DrillOK, NEW p \in Proc, NEW ok, NEW next \in {"audit", "sdk"},
           Check(p, ok, next), proc[p].tool # "none",
           \/ proc[p].pc = "checks" /\ (ok => NamesFree(p))
           \/ proc[p].pc = "healthy"
    PROVE  DrillOK'
<1>2. proc[p].tool = "business" /\ BusinessOK(p)
  BY DEF DrillOK, ToolOK, RestoreOK, RestorePc
<1>3. /\ Elsewhere(p) /\ UNCHANGED <<restored, business, validated, data, made>>
      /\ \/ With(proc', p, "cleanup", proc[p].mine, proc[p].from, proc[p].pass)
         \/ With(proc', p, next, proc[p].mine, proc[p].from, proc[p].pass) /\ ok
  BY Checks
<1>4. NamesFree(p) => \A k \in FlowKinds : Of(k, proc[p].id) \notin made
  BY DEF NamesFree, FlowKinds, Own
<1>5. ToolOK(p)'
  <2>1. CASE With(proc', p, "cleanup", proc[p].mine, proc[p].from, proc[p].pass)
    BY <1>3, <2>1, GiveUp
  <2>2. CASE With(proc', p, next, proc[p].mine, proc[p].from, proc[p].pass) /\ ok
    <3>1. next \in BusinessPc /\ next \notin {"audit2", "audited2", "finish"}
      BY DEF BusinessPc
    <3>2. \A k \in FlowKinds : Of(k, proc[p].id) \in made' => Of(k, proc[p].id) \in proc[p].mine
      BY <1>2, <1>3, <1>4, <2>2, Zenon DEF BusinessOK
    <3> QED
      BY <1>2, <1>3, <2>2, <3>1, <3>2, BusinessGoes, Zenon
  <2> QED
    BY <1>3, <2>1, <2>2
<1> QED
  BY <1>2, <1>3, <1>5, QuietStep, Zenon

(* The preflight and the health check preserve the invariant. *)
LEMMA BusinessChecked ==
    ASSUME DrillOK, NEW p \in Proc, BusinessChecks(p) \/ BusinessHealthy(p)
    PROVE  DrillOK'
<1>1. CASE BusinessChecks(p)
  <2> PICK ok : ok <=> VolumeUnused(p) /\ NamesFree(p)
    OBVIOUS
  <2>1. Check(p, ok, "audit") /\ proc[p].tool # "none" /\ proc[p].pc = "checks"
    BY <1>1 DEF BusinessChecks, At, Check
  <2> QED
    BY <2>1, BusinessReads
<1>2. CASE BusinessHealthy(p)
  <2> PICK ok : ok <=> {Own(p, "redis"), Own(p, "app")} \subseteq made
    BY Zenon
  <2>1. Check(p, ok, "sdk") /\ proc[p].tool # "none" /\ proc[p].pc = "healthy"
    BY <1>2, Zenon DEF BusinessHealthy, At, Check
  <2> QED
    BY <2>1, BusinessReads
<1> QED
  BY <1>1, <1>2

\* The audit container goes, whatever it found.
LEMMA BusinessAudits ==
    ASSUME DrillOK, NEW p \in Proc, NEW pc, NEW next,
           BusinessAudited(p, pc, next),
           \/ pc = "audited" /\ next = "work"
           \/ pc = "audited2" /\ next = "finish"
    PROVE  DrillOK'
<1>0. MapsOK
  BY DEF DrillOK
<1>1. proc[p].tool = "business" /\ proc[p].pc = pc /\ BusinessOK(p)
  BY Zenon DEF BusinessAudited, At, DrillOK, ToolOK, RestoreOK, RestorePc
<1>2. UNCHANGED <<validated, bundle, staged, restored, business, data>>
  BY DEF BusinessAudited, vaultVars
<1>3. made' = made \/ made' = made \ {Of("audit", proc[p].id)}
  BY DEF BusinessAudited, Own
<1>4. Elsewhere(p)
  BY <1>0, <1>2, <1>3, Names DEF Elsewhere, MapsOK
<1>5. \/ With(proc', p, "cleanup", proc[p].mine, proc[p].from, proc[p].pass)
      \/ With(proc', p, next, proc[p].mine, proc[p].from, proc[p].pass)
  <2>1. proc' = [proc EXCEPT ![p].pc = next] \/ proc' = [proc EXCEPT ![p].pc = "cleanup"]
    BY DEF BusinessAudited, Fail, Go
  <2> QED
    BY <1>0, <2>1, SetPc, Zenon
<1>6. CASE With(proc', p, "cleanup", proc[p].mine, proc[p].from, proc[p].pass)
  <2>1. ToolOK(p)'
    BY <1>1, <1>2, <1>6, GiveUp, SMTT(30)
  <2> QED
    BY <1>1, <1>2, <1>4, <1>6, <2>1, QuietStep
<1>7. CASE With(proc', p, next, proc[p].mine, proc[p].from, proc[p].pass)
  <2>1. next \in BusinessPc
    BY DEF BusinessPc
  <2>2. \A k \in FlowKinds : Of(k, proc[p].id) \in made' => Of(k, proc[p].id) \in proc[p].mine
    BY <1>1, <1>3, Zenon DEF BusinessOK, Clean
  <2>3. next \in {"audit2", "audited2", "finish"} =>
          \A k \in FlowKinds : Of(k, proc[p].id) \notin made'
    BY <1>1, <1>3 DEF BusinessOK, Clean
  <2>4. ToolOK(p)'
    BY <1>1, <1>2, <1>7, <2>1, <2>2, <2>3, BusinessGoes, Zenon
  <2> QED
    BY <1>1, <1>2, <1>4, <1>7, <2>4, QuietStep
<1> QED
  BY <1>5, <1>6, <1>7

\* The clone and the flow write to the work volume only.
LEMMA BusinessWrites ==
    ASSUME DrillOK, NEW p \in Proc, BusinessClone(p) \/ BusinessSdk(p)
    PROVE  DrillOK'
<1>0. MapsOK
  BY DEF DrillOK
<1>1. /\ proc[p].tool = "business" /\ proc[p].pc \in {"clone", "sdk"} /\ BusinessOK(p)
      /\ proc[p].id \in Restore
  BY DEF BusinessClone, BusinessSdk, At, DrillOK, ToolOK, RestoreOK, RestorePc
<1>2. UNCHANGED <<validated, bundle, staged, restored, business, made>>
  BY DEF BusinessClone, BusinessSdk, vaultVars
<1>3. /\ data' = [v \in Volume |-> data'[v]]
      /\ \A v \in Volume : v # Of("work", proc[p].id) => data'[v] = data[v]
  BY <1>0 DEF BusinessClone, BusinessSdk, MapsOK, Own, ServedVolume
<1>4. \A r \in Restore : data'[Of("volume", r)] = data[Of("volume", r)]
  BY <1>3, Names
<1>5. Elsewhere(p)
  BY <1>2, <1>3, <1>4 DEF Elsewhere
<1>6. PICK next \in {"network", "teardown", "cleanup"} :
        With(proc', p, next, proc[p].mine, proc[p].from, proc[p].pass)
  <2>1. PICK next \in {"network", "teardown", "cleanup"} :
          proc' = [proc EXCEPT ![p].pc = next]
    BY SMTT(30) DEF BusinessClone, BusinessSdk, Fail, Go
  <2> QED
    BY <1>0, <2>1, SetPc, Zenon
<1>7. \A k \in FlowKinds : Of(k, proc[p].id) \in made' => Of(k, proc[p].id) \in proc[p].mine
  BY <1>1, <1>2 DEF BusinessOK
<1>8. ToolOK(p)'
  BY <1>1, <1>2, <1>6, <1>7, BusinessGoes, Zenon DEF BusinessPc
<1> QED
  BY <1>1, <1>2, <1>4, <1>5, <1>6, <1>8, QuietStep, Zenon

\* A removal takes only objects of the run, never the retained volume.
LEMMA BusinessRemoval ==
    ASSUME DrillOK, NEW p \in Proc, proc[p].tool = "business",
           UNCHANGED <<validated, bundle, staged, restored, business>>,
           NEW gone, gone \subseteq proc[p].mine \cup {Own(p, "audit")},
           made' = made \ gone,
           data' = [v \in Volume |-> IF v \in gone THEN None ELSE data[v]]
    PROVE  /\ Elsewhere(p)
           /\ data'[Of("volume", proc[p].id)] = data[Of("volume", proc[p].id)]
<1>1. /\ ToolOK(p) /\ BusinessOK(p) /\ proc[p].id \in Restore /\ "volume" \in Kinds
  BY DEF DrillOK, ToolOK, Kinds
<1>2. \A k, r : r # proc[p].id => Of(k, r) \notin gone
  BY <1>1, Names, SMTT(30) DEF ToolOK, Own
<1>3. Of("volume", proc[p].id) \notin gone
  BY <1>1, Names DEF BusinessOK, Own
<1>4. Elsewhere(p)
  BY <1>2, Names DEF Elsewhere
<1> QED
  BY <1>1, <1>3, <1>4, Names, Zenon

\* A teardown without failures leaves nothing of the flow.
LEMMA BusinessTearsDown ==
    ASSUME DrillOK, NEW p \in Proc, BusinessTeardown(p)
    PROVE  DrillOK'
<1>0. MapsOK
  BY DEF DrillOK
<1>1. proc[p].tool = "business" /\ proc[p].pc = "teardown" /\ BusinessOK(p)
  BY Zenon DEF BusinessTeardown, At, DrillOK, ToolOK, RestoreOK, RestorePc
<1>2. UNCHANGED <<validated, bundle, staged, restored, business>>
  BY Zenon DEF BusinessTeardown, vaultVars
<1> DEFINE tried == proc[p].mine \ {Own(p, "audit")}
<1>3. PICK F : LET gone == Removed(tried, F)
                   failures == TeardownFailures(tried, gone)
               IN  /\ made' = made \ gone
                   /\ data' = [v \in Volume |-> IF v \in gone THEN None ELSE data[v]]
                   /\ proc' = [proc EXCEPT
                         ![p].pc = IF failures = {} THEN "audit2" ELSE "cleanup",
                         ![p].leftovers = failures,
                         ![p].mine = {x \in tried \ gone : x[1] \in {"network", "work"}}]
  BY Zenon DEF BusinessTeardown
<1> PICK gone : gone = Removed(tried, F)
  OBVIOUS
<1> PICK failures : failures = tried \ gone
  BY Zenon
<1> PICK next : next = IF failures = {} THEN "audit2" ELSE "cleanup"
  OBVIOUS
<1> PICK mine : mine = {x \in tried \ gone : x[1] \in {"network", "work"}}
  BY Zenon
<1>4. gone \subseteq tried
  BY DEF Removed
<1>5. /\ mine \subseteq proc[p].mine
      /\ next \in {"audit2", "cleanup"} /\ (next = "audit2" => gone = tried)
  BY <1>4
<1>6. /\ made' = made \ gone
      /\ data' = [v \in Volume |-> IF v \in gone THEN None ELSE data[v]]
      /\ proc' = [proc EXCEPT ![p].pc = next, ![p].leftovers = failures, ![p].mine = mine]
  BY <1>3, Zenon DEF TeardownFailures
<1>7. With(proc', p, next, mine, proc[p].from, proc[p].pass)
  BY <1>0, <1>6, Keep, Zenon
<1>8. /\ Elsewhere(p)
      /\ data'[Of("volume", proc[p].id)] = data[Of("volume", proc[p].id)]
  BY <1>1, <1>2, <1>4, <1>6, BusinessRemoval, Zenon
<1>9. next = "audit2" => \A k \in FlowKinds : Of(k, proc[p].id) \notin made'
  <2>1. \A k \in FlowKinds : Of(k, proc[p].id) # Own(p, "audit")
    BY Names DEF Own, FlowKinds
  <2> QED
    BY <1>1, <1>5, <1>6, <2>1, Zenon DEF BusinessOK
<1>10. ToolOK(p)'
  BY <1>1, <1>2, <1>5, <1>7, <1>9, BusinessGoes, Zenon DEF BusinessPc
<1> QED
  BY <1>1, <1>2, <1>7, <1>8, <1>10, QuietStep, Zenon

(* The teardown of the business run preserves the invariant. *)
LEMMA BusinessCleansUp ==
    ASSUME DrillOK, NEW p \in Proc, BusinessCleanup(p)
    PROVE  DrillOK'
<1>0. MapsOK
  BY DEF DrillOK
<1>1. proc[p].tool = "business" /\ proc[p].pc = "cleanup"
  BY DEF BusinessCleanup, At
<1>2. UNCHANGED <<validated, bundle, staged, restored, business>>
  BY DEF BusinessCleanup, vaultVars
<1>3. PICK gone, left :
        /\ gone \subseteq proc[p].mine \cup {Own(p, "audit")}
        /\ made' = made \ gone
        /\ data' = [v \in Volume |-> IF v \in gone THEN None ELSE data[v]]
        /\ proc' = [proc EXCEPT ![p].pc = "report", ![p].mine = {},
                                ![p].leftovers = @ \cup left]
  <2> DEFINE tried == (proc[p].mine \cup {Own(p, "audit")}) \cap made
  <2>1. PICK F : LET gone == Removed(tried, F)
                 IN  /\ made' = made \ gone
                     /\ data' = [v \in Volume |-> IF v \in gone THEN None ELSE data[v]]
                     /\ proc' = [proc EXCEPT ![p].pc = "report", ![p].mine = {},
                           ![p].leftovers = @ \cup ((tried \ gone) \ {Own(p, "audit")})]
    BY Zenon DEF BusinessCleanup
  <2>2. Removed(tried, F) \subseteq proc[p].mine \cup {Own(p, "audit")}
    BY DEF Removed
  <2> QED
    BY <2>1, <2>2, Zenon
<1> PICK mine : mine = {}
  BY Zenon
<1>4. With(proc', p, "report", mine, proc[p].from, proc[p].pass)
  <2>1. With(proc', p, "report", {}, proc[p].from, proc[p].pass)
    BY <1>0, <1>3, Forget, Zenon
  <2> QED
    BY <2>1
<1>5. /\ Elsewhere(p)
      /\ data'[Of("volume", proc[p].id)] = data[Of("volume", proc[p].id)]
  BY <1>1, <1>2, <1>3, BusinessRemoval, Zenon
<1>6. ToolOK(p)'
  BY <1>1, <1>2, <1>4, BusinessGoes DEF BusinessPc
<1> QED
  BY <1>1, <1>2, <1>4, <1>5, <1>6, QuietStep, Zenon

(* Writing the business summary preserves the invariant. *)
LEMMA BusinessReports ==
    ASSUME DrillOK, NEW p \in Proc, BusinessReport(p)
    PROVE  DrillOK'
<1>0. MapsOK
  BY DEF DrillOK
<1>1. proc[p].tool = "business" /\ BusinessOK(p) /\ proc[p].id \in Restore
  BY Zenon DEF BusinessReport, DrillOK, ToolOK
<1> PICK own : own = proc[p].id
  OBVIOUS
<1>2. /\ UNCHANGED <<validated, bundle, staged, restored, made, data>>
      /\ business' = [business EXCEPT ![own] = Report(p)]
      /\ proc' = [proc EXCEPT ![p] = NoTool]
  BY <1>1, Zenon DEF BusinessReport, vaultVars, BusinessOK
<1>3. /\ IsTools(proc') /\ proc'[p] = NoTool
      /\ \A q \in Proc \ {p} : proc'[q] = proc[q]
  <2>1. IsTool(NoTool)
    BY Zenon DEF IsTool, NoTool
  <2> QED
    BY <1>0, <1>2, <2>1, Whole, Zenon
<1>4. /\ business' = [r \in Restore |-> business'[r]] /\ business'[own] = Report(p)
      /\ \A r \in Restore \ {own} : business'[r] = business[r]
  BY <1>0, <1>1, <1>2 DEF MapsOK
<1>5. Elsewhere(p)
  BY <1>0, <1>2, <1>4, SMTT(30) DEF Elsewhere, MapsOK
<1>6. ToolOK(p)'
  BY <1>3, NoToolOK
<1>7. RunOK(own)'
  <2>1. RunOK(own) /\ restored[own] # None /\ (proc[p].pass => Clean(own))
    BY <1>1, Zenon DEF DrillOK, BusinessOK
  <2> QED
    BY <1>2, <1>4, <2>1 DEF RunOK, Report, Clean
<1> QED
  BY <1>0, <1>1, <1>2, <1>3, <1>4, <1>5, <1>6, <1>7, OwnStep DEF MapsOK, NoTool

\* Both tools: the lock, and the verdict.
LEMMA ToolLocks ==
    ASSUME DrillOK, NEW p \in Proc, Lock(p)
    PROVE  DrillOK'
<1>0. MapsOK
  BY DEF DrillOK
<1>1. proc[p].tool \in {"restore", "business"} /\ proc[p].pc = "lock" /\ ToolOK(p)
  BY DEF Lock, At, DrillOK, ToolOK
<1>2. UNCHANGED <<validated, bundle, staged, restored, business, data, made>>
  BY DEF Lock, vaultVars
<1>3. Elsewhere(p)
  BY <1>0, <1>2 DEF Elsewhere, MapsOK
<1> PICK next : next = IF proc[p].tool = "restore" THEN "bundle" ELSE "checks"
  OBVIOUS
<1>4. With(proc', p, next, proc[p].mine, proc[p].from, proc[p].pass)
  <2>1. proc' = [proc EXCEPT ![p].pc = next]
    BY DEF Lock
  <2> QED
    BY <1>0, <2>1, SetPc, Zenon
<1>5. ToolOK(p)'
  <2>1. CASE proc[p].tool = "restore"
    BY <1>1, <1>2, <1>4, <2>1, RestoreGoes, Zenon DEF RestorePc
  <2>2. CASE proc[p].tool = "business"
    <3>1. BusinessOK(p)'
      BY <1>1, <1>2, <1>4, <2>2, Zenon DEF ToolOK, BusinessOK, BusinessPc, With
    <3> QED
      BY <1>1, <1>4, <2>2, <3>1, Zenon DEF ToolOK, With
  <2> QED
    BY <1>1, <2>1, <2>2
<1> QED
  BY <1>1, <1>2, <1>3, <1>4, <1>5, QuietStep, Zenon

(* The success that releases the lock preserves the invariant. *)
LEMMA ToolFinishes ==
    ASSUME DrillOK, NEW p \in Proc, Finish(p)
    PROVE  DrillOK'
<1>0. MapsOK
  BY DEF DrillOK
<1>1. proc[p].tool \in {"restore", "business"} /\ proc[p].pc = "finish" /\ ToolOK(p)
  BY DEF Finish, At, DrillOK, ToolOK
<1>2. UNCHANGED <<validated, bundle, staged, restored, business, data, made>>
  BY DEF Finish, vaultVars
<1>3. Elsewhere(p)
  BY <1>0, <1>2 DEF Elsewhere, MapsOK
<1>4. \/ With(proc', p, "cleanup", proc[p].mine, proc[p].from, proc[p].pass)
      \/ With(proc', p, "report", proc[p].mine, proc[p].from, TRUE)
  <2>1. \/ proc' = [proc EXCEPT ![p].pc = "report", ![p].pass = TRUE]
        \/ proc' = [proc EXCEPT ![p].pc = "cleanup"]
    BY DEF Finish, Fail
  <2> QED
    BY <1>0, <2>1, SetPc, SetPass, Zenon
<1>5. CASE With(proc', p, "cleanup", proc[p].mine, proc[p].from, proc[p].pass)
  <2>1. ToolOK(p)'
    BY <1>1, <1>2, <1>5, GiveUp, Zenon
  <2> QED
    BY <1>1, <1>2, <1>3, <1>5, <2>1, QuietStep
<1>6. CASE With(proc', p, "report", proc[p].mine, proc[p].from, TRUE)
  <2>1. proc[p].tool = "restore" => RestoreOK(p)'
    BY <1>1, <1>2, <1>6, Zenon DEF ToolOK, RestoreOK, RestorePc, With
  <2>2. proc[p].tool = "business" => BusinessOK(p)'
    BY <1>1, <1>2, <1>6, Zenon DEF ToolOK, BusinessOK, BusinessPc, With, Clean
  <2>3. ToolOK(p)'
    BY <1>1, <1>6, <2>1, <2>2, Zenon DEF ToolOK, With
  <2> QED
    BY <1>1, <1>2, <1>3, <1>6, <2>3, QuietStep, Zenon
<1> QED
  BY <1>4, <1>5, <1>6, Zenon

(* A killed tool, which leaves its objects, preserves the invariant. *)
LEMMA ToolDies ==
    ASSUME DrillOK, NEW p \in Proc, Kill(p)
    PROVE  DrillOK'
<1>0. MapsOK
  BY DEF DrillOK
<1>1. UNCHANGED <<validated, bundle, staged, restored, business, data, made>>
  BY DEF Kill, vaultVars
<1>2. /\ IsTools(proc') /\ proc'[p] = NoTool
      /\ \A q \in Proc \ {p} : proc'[q] = proc[q]
  <2>1. IsTool(NoTool)
    BY Zenon DEF IsTool, NoTool
  <2> QED
    BY <1>0, <2>1, Whole, Zenon DEF Kill
<1>3. ToolOK(p)' /\ proc'[p].tool = "none"
  BY <1>2, NoToolOK
<1>4. MapsOK' /\ ExportOK' /\ IdsDiffer'
  BY <1>0, <1>1, <1>2, <1>3 DEF DrillOK, MapsOK, IsTools, ExportOK, IdsDiffer
<1>5. \A r \in Restore : RunOK(r)'
  BY <1>1, Zenon DEF DrillOK, RunOK, Clean
<1>6. ASSUME NEW q \in Proc \ {p} PROVE ToolOK(q)'
  <2>1. ToolOK(q) /\ proc'[q] = proc[q]
    BY <1>2, Zenon DEF DrillOK
  <2>2. Clean(proc[q].id)' <=> Clean(proc[q].id)
    BY <1>1, <2>1, Zenon DEF Clean
  <2>3. /\ RestoreOK(q)' <=> RestoreOK(q)
        /\ BusinessOK(q)' <=> BusinessOK(q)
    BY <1>1, <2>1, <2>2, Zenon DEF RestoreOK, BusinessOK
  <2> QED
    BY <2>1, <2>3, Zenon DEF ToolOK
<1> QED
  BY <1>3, <1>4, <1>5, <1>6, Zenon DEF DrillOK

\* A tool starts on an id that no other tool works on.
LEMMA ToolStarts ==
    ASSUME DrillOK, NEW p \in Proc, NEW r \in Restore, NEW tool \in {"restore", "business"},
           NEW from, Start(p, tool, r, from),
           IF tool = "restore" THEN restored[r] = None /\ from = None
           ELSE restored[r] # None /\ business[r] = None
    PROVE  DrillOK'
<1>0. MapsOK
  BY DEF DrillOK
<1>1. UNCHANGED <<validated, bundle, staged, restored, business, data, made>>
  BY DEF Start, vaultVars
<1> PICK t : t = [NoTool EXCEPT !.tool = tool, !.id = r, !.pc = "lock", !.from = from]
  OBVIOUS
<1>2. /\ IsTool(t) /\ t.tool = tool /\ t.id = r /\ t.pc = "lock" /\ t.from = from
      /\ t.mine = {} /\ ~t.pass
  BY Zenon DEF NoTool, IsTool
<1>3. /\ IsTools(proc') /\ proc'[p] = t
      /\ \A q \in Proc \ {p} : proc'[q] = proc[q]
  <2>1. proc' = [proc EXCEPT ![p] = t]
    BY DEF Start
  <2> QED
    BY <1>0, <1>2, <2>1, Whole, Zenon
<1>4. MapsOK' /\ ExportOK'
  BY <1>0, <1>1, <1>3 DEF DrillOK, MapsOK, IsTools, ExportOK
<1>5. IdsDiffer'
  BY <1>2, <1>3 DEF DrillOK, IdsDiffer, Start
<1>6. \A s \in Restore : RunOK(s)'
  BY <1>1 DEF DrillOK, RunOK, Clean
<1>7. ASSUME NEW q \in Proc \ {p} PROVE ToolOK(q)'
  BY <1>1, <1>3 DEF DrillOK, ToolOK, RestoreOK, BusinessOK, Clean
<1>8. ToolOK(p)'
  <2>1. tool = "restore" => RestoreOK(p)'
    BY <1>1, <1>2, <1>3 DEF RestoreOK, RestorePc
  <2>2. tool = "business" => BusinessOK(p)'
    BY <1>1, <1>2, <1>3 DEF BusinessOK, BusinessPc
  <2> QED
    BY <1>2, <1>3, <2>1, <2>2 DEF ToolOK
<1> QED
  BY <1>4, <1>5, <1>6, <1>7, <1>8 DEF DrillOK

(* The tools never rely on a backup not being validated. *)
LEMMA ValidatedGrows ==
    ASSUME DrillOK, UNCHANGED drillVars, validated \subseteq validated'
    PROVE  DrillOK'
<1>1. MapsOK' /\ IdsDiffer' /\ ExportOK'
  BY Zenon DEF DrillOK, MapsOK, IdsDiffer, IsTool, ExportOK, IsBundle, drillVars
<1>2. \A r \in Restore : RunOK(r)'
  BY DEF DrillOK, RunOK, Clean, drillVars
<1>3. ASSUME NEW q \in Proc PROVE ToolOK(q)'
  BY Zenon DEF DrillOK, ToolOK, RestoreOK, BusinessOK, Clean, drillVars
<1> QED
  BY <1>1, <1>2, <1>3 DEF DrillOK

-----------------------------------------------------------------------------
(* Every step.                                                                *)

\* A step of a tool keeps the invariant, leaves the vault alone, and writes a
\* summary only as a report.
LEMMA ToolStepOK ==
    ASSUME DrillOK, NEW p \in Proc, ToolStep(p)
    PROVE  /\ DrillOK' /\ UNCHANGED vaultVars
           /\ UNCHANGED <<restored, business>> \/ RestoreReport(p) \/ BusinessReport(p)
<1>1. CASE Lock(p) \/ Finish(p)
  <2>1. DrillOK'
    BY <1>1, ToolLocks, ToolFinishes
  <2> QED
    BY <1>1, <2>1 DEF Lock, Finish
<1>2. CASE RestoreStep(p)
  <2>1. DrillOK'
    BY <1>2, RestoreTakesBundle, RestoreCreates, RestoreReads, RestoreRemoves, RestoreSeeds,
       RestoreCompares, RestoreCleansUp, RestoreReports, Zenon DEF RestoreStep
  <2>2. CASE RestoreReport(p)
    BY <2>1, <2>2 DEF RestoreReport
  <2>3. CASE RestoreBundle(p) \/ RestoreRead(p) \/ RestoreSeed(p) \/ RestoreCleanup(p)
    BY <2>1, <2>3, Zenon DEF RestoreBundle, RestoreRead, RestoreSeed, RestoreCleanup
  <2>4. CASE RestoreBaseline(p) \/ RestoreVolume(p) \/ RestoreTarget(p)
    BY <2>1, <2>4 DEF RestoreBaseline, RestoreVolume, RestoreTarget, DockerCreate
  <2>5. CASE RestoreUnbaseline(p) \/ RestoreUntarget(p) \/ RestoreCompare(p)
    BY <2>1, <2>5 DEF RestoreUnbaseline, RestoreUntarget, RestoreCompare, DockerRemove, Check
  <2> QED
    BY <1>2, <2>2, <2>3, <2>4, <2>5 DEF RestoreStep
<1>3. CASE BusinessStep(p)
  <2>0. BusinessAudited(p, "audited", "work") \/ BusinessAudited(p, "audited2", "finish")
        => DrillOK'
    <3>1. ASSUME BusinessAudited(p, "audited", "work")
          PROVE  DrillOK'
      <4> PICK pc : pc = "audited"
        OBVIOUS
      <4> PICK next : next = "work"
        OBVIOUS
      <4>1. BusinessAudited(p, pc, next) /\ pc = "audited" /\ next = "work"
        BY <3>1
      <4> QED
        BY <4>1, BusinessAudits
    <3>2. ASSUME BusinessAudited(p, "audited2", "finish")
          PROVE  DrillOK'
      BY <3>2, BusinessAudits, Zenon
    <3> QED
      BY <3>1, <3>2
  <2>1. DrillOK'
    BY <1>3, <2>0, BusinessChecked, BusinessCreates, BusinessWrites,
       BusinessTearsDown, BusinessCleansUp, BusinessReports, Zenon DEF BusinessStep
  <2>2. CASE BusinessReport(p)
    BY <2>1, <2>2 DEF BusinessReport
  <2>3. CASE BusinessChecks(p) \/ BusinessHealthy(p) \/ BusinessAudited(p, "audited", "work")
             \/ BusinessAudited(p, "audited2", "finish")
    BY <2>1, <2>3, Zenon DEF BusinessChecks, BusinessHealthy, Check, BusinessAudited
  <2>4. CASE BusinessClone(p) \/ BusinessSdk(p) \/ BusinessTeardown(p) \/ BusinessCleanup(p)
    BY <2>1, <2>4, Zenon DEF BusinessClone, BusinessSdk, BusinessTeardown, BusinessCleanup
  <2>5. CASE BusinessAudit(p) \/ BusinessWork(p) \/ BusinessNetwork(p) \/ BusinessRedis(p)
             \/ BusinessApp(p) \/ BusinessAuditAgain(p)
    BY <2>1, <2>5, Zenon DEF BusinessAudit, BusinessWork, BusinessNetwork, BusinessRedis,
                      BusinessApp, BusinessAuditAgain, DockerCreate
  <2> QED
    BY <1>3, <2>2, <2>3, <2>4, <2>5 DEF BusinessStep
<1> QED
  BY <1>1, <1>2, <1>3 DEF ToolStep

(* The start of a tool preserves the invariant and touches no evidence. *)
LEMMA StartStepOK ==
    ASSUME DrillOK, NEW p \in Proc, NEW r \in Restore, RestoreStart(p, r) \/ BusinessStart(p, r)
    PROVE  DrillOK' /\ UNCHANGED <<vaultVars, restored, business>>
<1>1. CASE RestoreStart(p, r)
  <2>1. Start(p, "restore", r, None) /\ restored[r] = None
    BY <1>1 DEF RestoreStart
  <2>2. DrillOK'
    BY <2>1, ToolStarts
  <2> QED
    BY <2>1, <2>2 DEF Start
<1>2. CASE BusinessStart(p, r)
  <2> PICK from : from = [backup |-> restored[r].backup, manifest |-> restored[r].manifest,
                          payload |-> restored[r].backup, restore |-> r]
    BY Zenon
  <2>1. Start(p, "business", r, from) /\ restored[r] # None /\ business[r] = None
    BY <1>2, Zenon DEF BusinessStart, ReleaseContext
  <2>2. DrillOK'
    BY <2>1, ToolStarts, Zenon
  <2> QED
    BY <2>1, <2>2 DEF Start
<1> QED
  BY <1>1, <1>2

\* Reports add a summary and change none.
LEMMA ReportsAdd ==
    ASSUME DrillOK, NEW p \in Proc, RestoreReport(p) \/ BusinessReport(p)
    PROVE  \A r \in Restore : /\ restored[r] # None => restored'[r] = restored[r]
                              /\ business[r] # None => business'[r] = business[r]
BY DEF RestoreReport, BusinessReport, DrillOK, MapsOK

-----------------------------------------------------------------------------
(* The drill: attestations and the vault.                                     *)

IsAttestation(kg) == kg = [restore |-> kg.restore, files |-> kg.files, marker |-> kg.marker]

IsOp(o) ==
    o = [kind |-> o.kind, id |-> o.id, pc |-> o.pc, manifest |-> o.manifest,
         restore |-> o.restore, doomed |-> o.doomed]

\* Attestations, also those being written, rest on a drill.
AttestOK ==
    /\ IsOp(op)
    /\ knownGood = [i \in Ids |-> knownGood[i]]
    /\ \A i \in Ids :
          knownGood[i] # None \/ (op.kind = "attest" /\ op.id = i) =>
              /\ IsAttestation(knownGood[i])
              /\ knownGood[i].restore \in Drills[i] /\ i \in validated
    /\ op.kind = "attest" => op.id \in Ids

RInv == DrillOK /\ AttestOK

\* The bundle on its way: what is exported was validated, what is staged was exported.
LEMMA BundleMoves ==
    ASSUME DrillOK, UNCHANGED <<made, data, proc, restored, business, validated>>,
           bundle' = [r \in Restore |-> bundle'[r]], staged' = [r \in Restore |-> staged'[r]],
           ExportOK'
    PROVE  DrillOK'
<1>1. MapsOK' /\ IdsDiffer'
  BY DEF DrillOK, MapsOK, IdsDiffer, IsTool
<1>2. \A r \in Restore : RunOK(r)'
  BY DEF DrillOK, RunOK, Clean
<1>3. ASSUME NEW q \in Proc PROVE ToolOK(q)'
  BY Zenon DEF DrillOK, ToolOK, RestoreOK, BusinessOK, Clean
<1> QED
  BY <1>1, <1>2, <1>3 DEF DrillOK

(* The export of a backup preserves the invariant of the tools. *)
LEMMA Exports ==
    ASSUME DrillOK, NEW r \in Restore,
           (\E i \in Ids : ExportBegin(i, r)) \/ ExportEnd(r)
    PROVE  DrillOK'
<1>0. MapsOK /\ ExportOK
  BY DEF DrillOK
<1>1. UNCHANGED <<made, data, proc, restored, business, validated, staged>>
  BY DEF ExportBegin, ExportEnd, vaultVars
<1>2. /\ bundle' = [s \in Restore |-> bundle'[s]]
      /\ \A s \in Restore \ {r} : bundle'[s] = bundle[s]
      /\ bundle'[r] # None =>
            IsBundle(bundle'[r]) /\ bundle'[r].backup \in validated
  <2>1. CASE \E i \in Ids : ExportBegin(i, r)
    <3>1. PICK i \in Ids : ExportBegin(i, r)
      BY <2>1
    <3> PICK b : b = [backup |-> i, manifest |-> backups[i].manifest, complete |-> FALSE]
      BY Zenon
    <3>2. IsBundle(b) /\ b.backup \in validated /\ bundle' = [bundle EXCEPT ![r] = b]
      BY <3>1 DEF ExportBegin, IsBundle
    <3> QED
      BY <1>0, <3>2, Zenon DEF MapsOK
  <2>2. CASE ExportEnd(r)
    BY <1>0, <2>2 DEF ExportEnd, MapsOK, ExportOK, IsBundle
  <2> QED
    BY <2>1, <2>2
<1>3. ExportOK'
  BY <1>0, <1>1, <1>2 DEF ExportOK
<1> QED
  BY <1>0, <1>1, <1>2, <1>3, BundleMoves DEF MapsOK

(* The transfer of a bundle preserves the invariant of the tools. *)
LEMMA Sends ==
    ASSUME DrillOK, NEW r \in Restore, SendBundle(r)
    PROVE  DrillOK'
<1>0. MapsOK /\ ExportOK
  BY DEF DrillOK
<1>1. UNCHANGED <<made, data, proc, restored, business, validated, bundle>>
  BY DEF SendBundle, vaultVars
<1>2. PICK b : /\ staged' = [staged EXCEPT ![r] = b]
               /\ b # None => b.backup = bundle[r].backup
  <2> PICK b : b = [backup |-> bundle[r].backup, manifest |-> bundle[r].manifest,
                    payload |-> bundle[r].backup, restore |-> r]
    BY Zenon
  <2>1. \/ staged' = [staged EXCEPT ![r] = b]
        \/ \E x \in Ids : staged' = [staged EXCEPT ![r] =
              IF FrameAccepted(b, [b EXCEPT !.payload = x])
              THEN [b EXCEPT !.payload = x] ELSE None]
    BY Zenon DEF SendBundle
  <2>2. b.backup = bundle[r].backup /\ \A x : [b EXCEPT !.payload = x].backup = b.backup
    OBVIOUS
  <2>3. CASE staged' = [staged EXCEPT ![r] = b]
    BY <2>2, <2>3, Zenon
  <2>4. ASSUME NEW x \in Ids,
               staged' = [staged EXCEPT ![r] =
                  IF FrameAccepted(b, [b EXCEPT !.payload = x])
                  THEN [b EXCEPT !.payload = x] ELSE None]
        PROVE  \E c : staged' = [staged EXCEPT ![r] = c]
                      /\ (c # None => c.backup = bundle[r].backup)
    <3> PICK c : c = IF FrameAccepted(b, [b EXCEPT !.payload = x])
                     THEN [b EXCEPT !.payload = x] ELSE None
      OBVIOUS
    <3>1. c # None => c.backup = bundle[r].backup
      BY <2>2
    <3>2. staged' = [staged EXCEPT ![r] = c]
      BY <2>4
    <3> QED
      BY <3>1, <3>2, Zenon
  <2> QED
    BY <2>1, <2>3, <2>4, Zenon
<1>3. bundle[r] # None
  BY DEF SendBundle
<1>4. /\ staged' = [s \in Restore |-> staged'[s]]
      /\ \A s \in Restore \ {r} : staged'[s] = staged[s]
      /\ staged'[r] = b
  BY <1>0, <1>2 DEF MapsOK
<1>5. ExportOK'
  BY <1>0, <1>1, <1>2, <1>3, <1>4 DEF ExportOK
<1> QED
  BY <1>0, <1>1, <1>4, <1>5, BundleMoves DEF MapsOK

\* The vault numbers its backups in the same way.
LEMMA SameIds == V!Ids = Ids
BY DEF V!Ids, Ids

-----------------------------------------------------------------------------
(* The vault's own steps.                                                     *)

\* A step of the vault adds validations at most, and only an attestation writes
\* or removes one.
LEMMA VaultEffect ==
    ASSUME IsOp(op), V!LockStep \/ V!OtherStep
    PROVE  /\ validated \subseteq validated'
           /\ \/ \E i \in Ids, r \in Restore : V!AttestBegin(i, r)
              \/ V!AttestWrite \/ V!AttestFinish \/ V!AttestFails
              \/ /\ knownGood' = knownGood /\ IsOp(op')
                 /\ op' = op \/ op'.kind # "attest"
<1>1. IsOp(V!NoOp) /\ V!NoOp.kind = "none"
  BY DEF IsOp, V!NoOp
<1>2. CASE V!LockStep
  BY <1>2, SMTT(30) DEF V!LockStep, V!Redeploy, V!StartBackup, V!vaultVars, V!evidenceVars
<1>3. CASE V!JobStep \/ V!KillBackup
  BY <1>3 DEF V!JobStep, V!CreateArchive, V!BindManifest, V!SendFrame, V!TakeReceipt,
              V!ReportBackup, V!TimeoutBackup, V!KillBackup, V!vaultVars, V!evidenceVars
<1>4. CASE V!StoreBegin
  BY <1>4, Zenon DEF V!StoreBegin, V!NoOp, IsOp, V!vaultVars, V!evidenceVars
<1>5. CASE V!StoreStep
  <2>1. CASE V!StoreWrite
    <3> PICK pc : op' = [op EXCEPT !.pc = pc]
      BY <2>1, Zenon DEF V!StoreWrite
    <3> QED
      BY <2>1 DEF V!StoreWrite, V!evidenceVars, IsOp
  <2>2. CASE V!StoreFails \/ V!StorePublish
    BY <1>1, <2>2 DEF V!StoreFails, V!StorePublish, V!evidenceVars
  <2> QED
    BY <1>5, <2>1, <2>2 DEF V!StoreStep
<1>6. CASE \E i \in Ids : V!ValidateBackup(i) \/ V!Decay(i)
  BY <1>6 DEF V!ValidateBackup, V!Decay, V!vaultVars, V!evidenceVars
<1>7. CASE (\E i \in Ids, r \in Restore : V!AttestBegin(i, r)) \/ V!AttestStep
  BY <1>7, Zenon DEF V!AttestBegin, V!AttestStep, V!AttestWrite, V!AttestFinish, V!AttestFails,
              V!evidenceVars
<1>8. CASE V!RetentionBegin
  BY <1>8, Zenon DEF V!RetentionBegin, V!NoOp, IsOp, V!vaultVars, V!evidenceVars
<1>9. CASE V!RetentionStep
  <2>1. CASE V!RetentionIntent
    BY <2>1 DEF V!RetentionIntent, V!evidenceVars, IsOp
  <2>2. CASE V!RetentionMove \/ V!RetentionDestroy
    BY <2>2 DEF V!RetentionMove, V!RetentionDestroy, V!evidenceVars
  <2>3. CASE V!RetentionUndo \/ V!RetentionStops \/ V!RetentionComplete
    BY <1>1, <2>3 DEF V!RetentionUndo, V!RetentionStops, V!RetentionComplete,
                      V!vaultVars, V!evidenceVars
  <2> QED
    BY <1>9, <2>1, <2>2, <2>3 DEF V!RetentionStep
<1>10. CASE V!KillVault
  BY <1>1, <1>10 DEF V!KillVault, V!vaultVars, V!evidenceVars
<1> QED
  BY <1>2, <1>3, <1>4, <1>5, <1>6, <1>7, <1>8, <1>9, <1>10, SameIds, SMTT(30) DEF V!OtherStep

\* Summaries are create-only, so a drill that counts keeps counting.
LEMMA DrillsGrow ==
    ASSUME \A r \in Restore : /\ restored[r] # None => restored'[r] = restored[r]
                              /\ business[r] # None => business'[r] = business[r]
    PROVE  \A i \in Ids : Drills[i] \subseteq Drills'[i]
BY Zenon DEF Drills, RestoreEligible, BusinessEligible, Ids

(* Validation and drills only add to what an attestation rests on. *)
LEMMA AttestationsStay ==
    ASSUME AttestOK, knownGood' = knownGood, IsOp(op'), op' = op \/ op'.kind # "attest",
           validated \subseteq validated', \A i \in Ids : Drills[i] \subseteq Drills'[i]
    PROVE  AttestOK'
<1>1. knownGood' = [i \in Ids |-> knownGood'[i]]
  BY DEF AttestOK
<1>2. ASSUME NEW i \in Ids, knownGood'[i] # None \/ (op'.kind = "attest" /\ op'.id = i)
      PROVE  /\ IsAttestation(knownGood'[i])
             /\ knownGood'[i].restore \in Drills'[i] /\ i \in validated'
  BY <1>2 DEF AttestOK, IsAttestation
<1>3. op'.kind = "attest" => op'.id \in Ids
  BY DEF AttestOK
<1> QED
  BY <1>1, <1>2, <1>3 DEF AttestOK, IsAttestation

\* The attestation writer: one backup's entry, and the operation that holds it.
LEMMA AttestationWritten ==
    ASSUME AttestOK, NEW i \in Ids, NEW kg, knownGood' = [knownGood EXCEPT ![i] = kg],
           kg # None \/ op'.kind = "attest" => /\ IsAttestation(kg)
                                               /\ kg.restore \in Drills[i] /\ i \in validated,
           IsOp(op'), op'.kind = "attest" => op'.id = i,
           Drills' = Drills, validated' = validated
    PROVE  AttestOK'
<1>1. /\ knownGood' = [j \in Ids |-> knownGood'[j]] /\ knownGood'[i] = kg
      /\ \A j \in Ids \ {i} : knownGood'[j] = knownGood[j]
  BY DEF AttestOK
<1>2. ASSUME NEW j \in Ids, knownGood'[j] # None \/ (op'.kind = "attest" /\ op'.id = j)
      PROVE  /\ IsAttestation(knownGood'[j])
             /\ knownGood'[j].restore \in Drills'[j] /\ j \in validated'
  <2>1. CASE j = i
    BY <1>1, <1>2, <2>1 DEF IsAttestation
  <2>2. CASE j # i
    BY <1>1, <1>2, <2>2 DEF AttestOK, IsAttestation
  <2> QED
    BY <2>1, <2>2
<1> QED
  BY <1>1, <1>2 DEF AttestOK, IsAttestation

(* attest_known_good checks its sources before it writes. *)
LEMMA Attests ==
    ASSUME AttestOK, Drills' = Drills,
           \/ \E i \in Ids, r \in Restore : V!AttestBegin(i, r)
           \/ V!AttestWrite \/ V!AttestFinish \/ V!AttestFails
    PROVE  AttestOK'
<1>0. /\ IsOp(op) /\ IsOp(V!NoOp) /\ V!NoOp.kind = "none"
      /\ op.kind = "attest" => /\ op.id \in Ids /\ IsAttestation(knownGood[op.id])
                               /\ knownGood[op.id].restore \in Drills[op.id]
                               /\ op.id \in validated
  BY DEF AttestOK, IsOp, V!NoOp
<1>1. validated' = validated
  BY Zenon DEF V!AttestBegin, V!AttestWrite, V!AttestFinish, V!AttestFails, V!evidenceVars
<1>2. ASSUME NEW i \in Ids, NEW r \in Restore, V!AttestBegin(i, r) PROVE AttestOK'
  <2> PICK kg : kg = [restore |-> r, files |-> 0, marker |-> TRUE]
    BY Zenon
  <2>1. IsAttestation(kg) /\ kg.restore = r
    BY DEF IsAttestation
  <2>2. /\ knownGood' = [knownGood EXCEPT ![i] = kg]
        /\ r \in Drills[i] /\ i \in validated
    BY <1>2, Zenon DEF V!AttestBegin, V!KnownGoodSources
  <2>3. IsOp(op') /\ op'.id = i
    BY <1>2, Zenon DEF V!AttestBegin, V!NoOp, IsOp
  <2> QED
    BY <1>1, <2>1, <2>2, <2>3, AttestationWritten, Zenon
<1>3. CASE V!AttestWrite
  <2> PICK kg : kg = [knownGood[op.id] EXCEPT !.files = @ + 1]
    BY Zenon
  <2>1. IsAttestation(kg) /\ kg.restore = knownGood[op.id].restore
    BY <1>0, <1>3 DEF IsAttestation, V!AttestWrite
  <2>2. knownGood' = [knownGood EXCEPT ![op.id] = kg] /\ op.kind = "attest"
    BY <1>3 DEF V!AttestWrite
  <2>3. IsOp(op') /\ op'.id = op.id
    <3> PICK pc : op' = [op EXCEPT !.pc = pc]
      BY <1>3, Zenon DEF V!AttestWrite
    <3> QED
      BY <1>0 DEF IsOp
  <2> QED
    BY <1>0, <1>1, <2>1, <2>2, <2>3, AttestationWritten, Zenon
<1>4. CASE V!AttestFinish
  <2>1. CASE knownGood[op.id].marker
    <3> PICK kg : kg = [knownGood[op.id] EXCEPT !.marker = FALSE]
      BY Zenon
    <3>1. IsAttestation(kg) /\ kg.restore = knownGood[op.id].restore
      BY <1>0, <1>4, Zenon DEF IsAttestation, V!AttestFinish
    <3>2. knownGood' = [knownGood EXCEPT ![op.id] = kg] /\ op.kind = "attest" /\ op' = op
      BY <1>4, <2>1 DEF V!AttestFinish
    <3> QED
      BY <1>0, <1>1, <3>1, <3>2, AttestationWritten, Zenon
  <2>2. CASE ~knownGood[op.id].marker
    BY <1>0, <1>1, <1>4, <2>2, AttestationsStay, SMTT(30) DEF V!AttestFinish
  <2> QED
    BY <2>1, <2>2
<1>5. CASE V!AttestFails
  BY <1>0, <1>1, <1>5, AttestationWritten, Zenon DEF V!AttestFails
<1> QED
  BY <1>2, <1>3, <1>4, <1>5, SMTT(30)

\* The steps outside the vault, by what they do to it: nothing, or a report.
LEMMA OutsideStep ==
    ASSUME DrillOK, Next, ~VaultStep
    PROVE  /\ DrillOK' /\ UNCHANGED vaultVars
           /\ \/ UNCHANGED <<restored, business>>
              \/ \E p \in Proc : RestoreReport(p) \/ BusinessReport(p)
<1>1. ASSUME NEW i \in Ids, NEW r \in Restore, ExportBegin(i, r)
      PROVE  DrillOK' /\ UNCHANGED <<vaultVars, restored, business>>
  <2>1. DrillOK'
    BY <1>1, Exports
  <2> QED
    BY <1>1, <2>1 DEF ExportBegin
<1>2. ASSUME NEW r \in Restore, ExportEnd(r) \/ SendBundle(r)
      PROVE  DrillOK' /\ UNCHANGED <<vaultVars, restored, business>>
  <2>1. DrillOK'
    BY <1>2, Exports, Sends
  <2> QED
    BY <1>2, <2>1 DEF ExportEnd, SendBundle
<1>3. ASSUME NEW p \in Proc, Kill(p)
      PROVE  DrillOK' /\ UNCHANGED <<vaultVars, restored, business>>
  <2>1. DrillOK'
    BY <1>3, ToolDies
  <2> QED
    BY <1>3, <2>1 DEF Kill
<1> QED
  BY <1>1, <1>2, <1>3, ToolStepOK, StartStepOK, Zenon DEF Next

(* Every step preserves the invariant. *)
LEMMA InvariantStep ==
    ASSUME RInv, [Next]_vars
    PROVE  RInv'
<1>0. DrillOK /\ AttestOK /\ IsOp(op)
  BY DEF RInv, AttestOK
<1>1. CASE VaultStep
  <2>1. UNCHANGED drillVars /\ (V!LockStep \/ V!OtherStep)
    BY <1>1 DEF VaultStep
  <2>2. Drills' = Drills
    BY <2>1, Zenon DEF Drills, RestoreEligible, BusinessEligible, drillVars
  <2>3. DrillOK'
    BY <1>0, <2>1, VaultEffect, ValidatedGrows, SMTT(30)
  <2>4. AttestOK'
    BY <1>0, <2>1, <2>2, VaultEffect, Attests, AttestationsStay, SMTT(30)
  <2> QED
    BY <2>3, <2>4 DEF RInv
<1>2. CASE Next /\ ~VaultStep
  <2>1. /\ DrillOK' /\ UNCHANGED vaultVars
        /\ \/ UNCHANGED <<restored, business>>
           \/ \E p \in Proc : RestoreReport(p) \/ BusinessReport(p)
    BY <1>0, <1>2, OutsideStep, SMTT(30)
  <2>2. \A r \in Restore : /\ restored[r] # None => restored'[r] = restored[r]
                           /\ business[r] # None => business'[r] = business[r]
    BY <1>0, <2>1, ReportsAdd
  <2>3. \A i \in Ids : Drills[i] \subseteq Drills'[i]
    BY <2>2, DrillsGrow, Zenon
  <2>4. knownGood' = knownGood /\ op' = op /\ validated' = validated
    BY <2>1 DEF vaultVars
  <2>5. AttestOK'
    BY <1>0, <2>3, <2>4, AttestationsStay, SMTT(30)
  <2> QED
    BY <2>1, <2>5 DEF RInv
<1>3. CASE UNCHANGED vars
  <2>1. UNCHANGED drillVars /\ UNCHANGED vaultVars
    BY <1>3 DEF vars
  <2>2. Drills' = Drills
    BY <2>1 DEF Drills, RestoreEligible, BusinessEligible, drillVars
  <2>3. knownGood' = knownGood /\ op' = op /\ validated' = validated
    BY <2>1 DEF vaultVars
  <2> QED
    BY <1>0, <2>1, <2>2, <2>3, ValidatedGrows, AttestationsStay, SMTT(30) DEF RInv
<1> QED
  BY <1>1, <1>2, <1>3

\* The cardinality of the instance is the cardinality.
LEMMA SameCardinality ==
    ASSUME NEW S
    PROVE  V!Cardinality(S) = Cardinality(S)
BY Zenon DEF Cardinality, V!Cardinality

\* Sets with the same members are equal.
LEMMA SameSet ==
    ASSUME NEW A, NEW B, \A x : x \in A <=> x \in B
    PROVE  A = B
BY Zenon

\* A report that makes a drill count is the Drill step of the vault: the backup was
\* validated, and the drill is new.
LEMMA ReportIsDrill ==
    ASSUME DrillOK, NEW p \in Proc, BusinessReport(p)
    PROVE  Drills' = Drills \/ \E i \in Ids, r \in Restore : V!Drill(i, r)
<1> PICK own : own = proc[p].id
  BY SMTT(30)
<1>1. own \in Restore /\ business[own] = None /\ MapsOK /\ RunOK(own)
  BY DEF BusinessReport, DrillOK, ToolOK, BusinessOK
<1>2. /\ UNCHANGED vaultVars /\ restored' = restored
      /\ \A r \in Restore \ {own} : business'[r] = business[r]
  BY <1>1, SMTT(30) DEF BusinessReport, MapsOK
<1>3. \A i \in Ids :
         /\ own \notin Drills[i] /\ Drills[i] \subseteq Restore
         /\ \A r \in Restore \ {own} : r \in Drills'[i] <=> r \in Drills[i]
         /\ Drills'[i] \subseteq Restore
  BY <1>1, <1>2 DEF Drills, RestoreEligible, BusinessEligible
<1>4. /\ Drills = [i \in Ids |-> Drills[i]]
      /\ Drills' = [i \in Ids |-> Drills'[i]]
  BY DEF Drills
<1>5. CASE \A i \in Ids : own \notin Drills'[i]
  <2>1. ASSUME NEW i \in Ids
        PROVE  Drills'[i] = Drills[i]
    <3>1. ASSUME NEW r
          PROVE  r \in Drills'[i] <=> r \in Drills[i]
      <4>1. CASE r \in Restore \ {own}
        BY <1>3, <4>1, Zenon
      <4>2. CASE r = own
        BY <1>3, <1>5, <4>2, Zenon
      <4>3. CASE r \notin Restore
        BY <1>3, <4>3, Zenon
      <4> QED
        BY <4>1, <4>2, <4>3
    <3> QED
      BY <3>1, SameSet, Zenon
  <2> QED
    BY <1>4, <2>1
<1>6. ASSUME NEW i \in Ids, own \in Drills'[i]
      PROVE  \E j \in Ids, r \in Restore : V!Drill(j, r)
  <2>1. i \in validated /\ i = restored[own].backup
    BY <1>1, <1>2, <1>6, SMTT(30) DEF Drills, RestoreEligible, RunOK
  <2>2. \A j \in Ids : j # i => own \notin Drills'[j]
    BY <1>2, <2>1 DEF Drills, RestoreEligible
  <2>3. Drills' = [Drills EXCEPT ![i] = Drills[i] \cup {own}]
    <3>1. ASSUME NEW j \in Ids
          PROVE  Drills'[j] = IF j = i THEN Drills[i] \cup {own} ELSE Drills[j]
      <4> PICK want : want = IF j = i THEN Drills[i] \cup {own} ELSE Drills[j]
        BY Zenon
      <4>1. ASSUME NEW r
            PROVE  r \in Drills'[j] <=> r \in want
        <5>1. CASE r \in Restore \ {own}
          BY <1>3, <5>1
        <5>2. CASE r = own
          BY <1>3, <1>6, <2>2, <5>2, SMTT(30)
        <5>3. CASE r \notin Restore
          BY <1>1, <1>3, <5>3, SMTT(30)
        <5> QED
          BY <5>1, <5>2, <5>3
      <4> QED
        BY <4>1, SameSet
    <3> QED
      BY <1>4, <3>1
  <2>4. Cardinality(Drills[i]) < MaxDrills
    <3>1. Drills[i] \subseteq Restore \ {own}
      BY <1>3
    <3>2. /\ IsFiniteSet(Restore \ {own})
          /\ Cardinality(Restore \ {own}) = Cardinality(Restore) - 1
      BY <1>1, DrillAssumption, FS_RemoveElement, Zenon
    <3>3. Cardinality(Drills[i]) <= Cardinality(Restore \ {own})
      BY <3>1, <3>2, FS_Subset
    <3>4. Cardinality(Drills[i]) \in Nat /\ Cardinality(Restore) \in Nat
      BY <3>1, <3>2, DrillAssumption, FS_Subset, FS_CardinalityType, SMTT(30)
    <3> QED
      BY <3>2, <3>3, <3>4, DrillAssumption, SMTT(30)
  <2>5. V!Drill(i, own)
    <3>1. UNCHANGED <<V!hostVars, V!wireVars, op, V!vaultVars, validated, V!faultVars>>
      BY <1>2 DEF vaultVars, V!vaultVars, V!hostVars, V!wireVars, V!faultVars
    <3> QED
      BY <1>3, <2>1, <2>3, <2>4, <3>1, SameCardinality, Zenon DEF V!Drill
  <2> QED
    BY <1>1, <2>5, SMTT(30) DEF Ids
<1> QED
  BY <1>5, <1>6

(* Every step is a step of the vault or leaves it alone. *)
LEMMA RefinementStep ==
    ASSUME RInv, [Next]_vars
    PROVE  [V!Next]_V!vars
<1>0. DrillOK
  BY DEF RInv
<1>1. CASE VaultStep
  BY <1>1 DEF VaultStep, V!Next
<1>2. CASE UNCHANGED vaultVars /\ Drills' = Drills
  BY <1>2 DEF vaultVars, V!vars, V!hostVars, V!wireVars, V!vaultVars, V!evidenceVars,
              V!faultVars
<1>3. CASE Next /\ ~VaultStep
  <2>1. /\ UNCHANGED vaultVars
        /\ \/ UNCHANGED <<restored, business>>
           \/ \E p \in Proc : RestoreReport(p) \/ BusinessReport(p)
    BY <1>0, <1>3, OutsideStep, SMTT(30)
  <2>2. CASE UNCHANGED <<restored, business>>
    BY <1>2, <2>1, <2>2, SMTT(30) DEF Drills, RestoreEligible, BusinessEligible
  <2>3. ASSUME NEW p \in Proc, RestoreReport(p)
        PROVE  Drills' = Drills
    <3>1. /\ business' = business /\ business[proc[p].id] = None
          /\ \A r \in Restore : r # proc[p].id => restored'[r] = restored[r]
      BY <1>0, <2>3, Zenon DEF RestoreReport, DrillOK, MapsOK, ToolOK, RestoreOK, RunOK
    <3>2. \A i \in Ids, r \in Restore :
            (RestoreEligible(i, r) /\ BusinessEligible(i, r))' <=>
            RestoreEligible(i, r) /\ BusinessEligible(i, r)
      BY <3>1 DEF RestoreEligible, BusinessEligible
    <3> QED
      BY <3>2, SMTT(30) DEF Drills
  <2>4. ASSUME NEW p \in Proc, BusinessReport(p)
        PROVE  Drills' = Drills \/ V!Next
    BY <1>0, <2>4, ReportIsDrill, SameIds, SMTT(30) DEF V!Next
  <2> QED
    BY <1>2, <2>1, <2>2, <2>3, <2>4, SMTT(30)
<1>4. CASE UNCHANGED vars
  <2>1. UNCHANGED vaultVars /\ Drills' = Drills
    BY <1>4 DEF vars, drillVars, Drills, RestoreEligible, BusinessEligible
  <2> QED
    BY <1>2, <2>1, SMTT(30)
<1> QED
  BY <1>1, <1>3, <1>4, SMTT(30)

(* The invariant holds of an empty host. *)
LEMMA InitialInvariant ==
    ASSUME Init
    PROVE  RInv
<1>1. MapsOK /\ ExportOK /\ IdsDiffer
  BY Zenon DEF Init, DrillInit, MapsOK, ExportOK, IdsDiffer, IsTool, NoTool
<1>2. (\A r \in Restore : RunOK(r)) /\ (\A p \in Proc : ToolOK(p))
  BY DEF Init, DrillInit, RunOK, ToolOK, NoTool
<1>3. AttestOK
  BY SameIds DEF Init, V!Init, AttestOK, V!NoOp, IsOp
<1> QED
  BY <1>1, <1>2, <1>3, SMTT(30) DEF RInv, DrillOK

-----------------------------------------------------------------------------
(* The theorems.                                                              *)

\* The invariant holds in every state of every behaviour.
THEOREM Invariance == Spec => []RInv
BY InitialInvariant, InvariantStep, PTL DEF Spec

\* A passed business run leaves no container, network or work volume of its own
\* (run_business_validation): what exists is remembered until the teardown, and the
\* teardown passes only if all of it went.
THEOREM BusinessIsClean == Spec => []PassedBusinessIsClean
<1>1. RInv => PassedBusinessIsClean
  BY SMTT(30) DEF RInv, DrillOK, RunOK, Clean, FlowKinds, PassedBusinessIsClean
<1> QED
  BY <1>1, Invariance, PTL

\* A complete known-good attestation names a backup that was validated and a restore
\* whose summaries passed on it, and the retained volume of that restore holds the
\* attested snapshot (create_known_good_attestation).
THEOREM AttestedIsProven == Spec => []KnownGoodIsProven
<1>1. RInv => KnownGoodIsProven
  <2> SUFFICES ASSUME RInv, NEW i \in Ids, knownGood[i] # None
               PROVE  LET r == knownGood[i].restore
                      IN  r \in Drills[i] /\ i \in validated /\ data[Of("volume", r)] = i
    BY DEF KnownGoodIsProven
  <2>1. knownGood[i].restore \in Drills[i] /\ i \in validated
    BY DEF RInv, AttestOK
  <2>2. /\ knownGood[i].restore \in Restore /\ RestoreEligible(i, knownGood[i].restore)
    BY <2>1 DEF Drills, Ids
  <2>3. RunOK(knownGood[i].restore)
    BY <2>2 DEF RInv, DrillOK
  <2> QED
    BY <2>1, <2>2, <2>3, SMTT(30) DEF RestoreEligible, RunOK
<1> QED
  BY <1>1, Invariance, PTL

\* The drill tools implement the vault's view of them: every step of theirs is a step
\* of BackupVault, in which a drill counts only for a validated backup and is new, or
\* changes nothing the vault can see.
THEOREM ImplementsVault == Spec => VaultSpec
<1>1. Init => V!Init
  BY DEF Init
<1>2. RInv /\ [Next]_vars => [V!Next]_V!vars
  BY RefinementStep
<1> QED
  BY <1>1, <1>2, Invariance, PTL DEF Spec, VaultSpec, V!Spec

=============================================================================
