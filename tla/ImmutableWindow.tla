-------------------------- MODULE ImmutableWindow --------------------------
(* One immutable observation window: declared before it starts, bound to a    *)
(* finalizer timer, audited at its first sample, aggregated at its fixed end  *)
(* from the canary's samples, and closed by final.json or by superseded.json. *)
(* Every document of a window directory is published whole and create-only.   *)
EXTENDS ExternalCanary

CONSTANTS
    Starts,         \* whole minutes a window may be declared to start at
    Duration,       \* of the window, in instants
    Lead,           \* least distance of a declaration to its start
    ReportAge,      \* how long an admission report is fresh
    Misses          \* minutes of the window that the objective tolerates

VARIABLES
    report,         \* newest passing `preflight --active` report, or None
    windows,        \* [start -> the window's directory, or None]
    fin             \* the aggregate or finalize command holding the lock, or None

wvars == <<report, windows, fin>>
allvars == <<vars, wvars>>

Document == {"declaration", "maintenance", "units", "binding", "startup", "inputs",
             "aggregate", "receipt", "final", "superseded"}
Directory == [docs : SUBSET Document, at : Int, record : Record, tools : Int \cup {None},
              reported : Int, inputs : SUBSET Sample, passed : BOOLEAN]

ASSUME WindowAssumption ==
    /\ Starts \subseteq Int /\ Duration \in Nat /\ ReportAge \in Nat /\ Misses \in Nat
    /\ None \notin Directory

WindowTypeOK ==
    /\ TypeOK
    /\ report # None => report.at \in Instant /\ report.subject \in Record
    /\ \A t \in Starts : windows[t] # None =>
        /\ windows[t] \in Directory /\ windows[t].at < t
        /\ windows[t].inputs \subseteq samples
    /\ fin # None =>
        /\ fin.pc \in {"cli", "check", "final"} /\ windows[fin.start] # None
        /\ {"binding", "startup"} \subseteq windows[fin.start].docs

WindowInit == Init /\ report = None /\ windows = [t \in Starts |-> None] /\ fin = None

Has(t, document) == windows[t] # None /\ document \in windows[t].docs

\* load: the declaration is not superseded and the observer still has its record.
Loaded(t) == Has(t, "declaration") /\ ~Has(t, "superseded") /\ windows[t].record = record

\* Documents appear in order: a command that is killed, or whose next host command
\* fails, leaves the earlier ones.
Put(t, documents) == windows' = [windows EXCEPT ![t].docs = @ \cup documents]

Unlocked == host /\ fin = None

\* What a window command leaves alone.
CanaryKept == UNCHANGED <<now, due, world, services, evidence, heartbeat, served>>

\* Reports are made when a declaration or a finalization wants one.
Preflight ==
    /\ Admitted /\ attested # None
    /\ \E t \in Starts : now + Lead <= t \/ (windows[t] # None /\ now >= t + Duration)
    /\ report' = [at |-> now, subject |-> record]
    /\ CanaryKept /\ UNCHANGED <<faults, extra, windows, fin>>

FreshReport == report # None /\ now - report.at <= ReportAge

Unfinished(t) == Has(t, "declaration") /\ ~Has(t, "superseded") /\ ~Has(t, "final")

\* declare: fresh admission reports, the attested installation, the future, and no other
\* unfinished window.
Declare(t) ==
    /\ Unlocked /\ windows[t] = None /\ now + Lead <= t
    /\ FreshReport /\ attested # None
    /\ report.subject = attested.subject /\ attested.subject = record
    /\ \A q \in Starts : ~Unfinished(q)
    /\ LET directory(documents) ==
            [docs |-> documents, at |-> now, record |-> record, tools |-> None,
             reported |-> report.at, inputs |-> {}, passed |-> FALSE]
       IN \/ /\ windows' = [windows EXCEPT ![t] = directory({"declaration", "maintenance"})]
             /\ UNCHANGED faults
          \/ windows' = [windows EXCEPT ![t] = directory({"declaration"})] /\ Fault
    /\ CanaryKept /\ UNCHANGED <<extra, report, fin>>

\* bind: the public declaration was read back; the units exist before binding.json.
Bind(t) ==
    /\ Unlocked /\ Loaded(t) /\ now < t /\ ~Has(t, "units")
    /\ \/ /\ windows' = [windows EXCEPT ![t].docs = @ \cup {"units", "binding"},
                                        ![t].tools = tools]
          /\ UNCHANGED faults
       \/ Put(t, {"units"}) /\ Fault
    /\ CanaryKept /\ UNCHANGED <<extra, report, fin>>

Of(t, set) == {s \in set : t <= s.at /\ s.at < t + Duration}

\* startup-audit: exactly one sample of the first minute, and it passed.
StartupAudit(t) ==
    /\ Unlocked /\ Loaded(t) /\ Has(t, "binding") /\ ~Has(t, "startup")
    /\ t <= now /\ now <= t + 4
    /\ LET first == {s \in samples : Minute(s.at) = Minute(t)}
       IN /\ Cardinality(first) = 1
          /\ \A s \in first : s.pass /\ s.record = windows[t].record
    /\ Put(t, {"startup"})
    /\ CanaryKept /\ UNCHANGED <<faults, extra, report, fin>>

-----------------------------------------------------------------------------
(* aggregate, and finalize which begins with it                               *)

\* sample_manifest: the samples of the window, all of the declared candidate.
Identical(t) == \A s \in Of(t, samples) : s.record = windows[t].record

AggregateInputs(t, final) ==
    /\ Unlocked /\ Loaded(t) /\ now >= t + Duration
    /\ Has(t, "binding") /\ Has(t, "startup") /\ windows[t].tools = tools
    /\ Identical(t)
    /\ IF Has(t, "aggregate")
       THEN UNCHANGED windows
       ELSE IF Has(t, "inputs")
            THEN windows[t].inputs = Of(t, samples) /\ UNCHANGED windows
            ELSE windows' = [windows EXCEPT ![t].docs = @ \cup {"inputs"},
                                            ![t].inputs = Of(t, samples)]
    /\ fin' = [start |-> t, final |-> final, inputs |-> Of(t, samples),
               pc |-> IF Has(t, "aggregate") THEN "check" ELSE "cli"]
    /\ CanaryKept /\ UNCHANGED <<faults, extra, report>>

\* aggregate_samples: the first sample of a minute counts and any other is invalid.
Minutes(t) == {Minute(i) : i \in t .. t + Duration - 1}
Recorded(set) == {Minute(s.at) : s \in set}
Succeeded(set) == {Minute(s.at) : s \in {s \in set :
                    s.pass /\ \A q \in set : Minute(q.at) = Minute(s.at) => s.at <= q.at}}
Duplicate(set) == Cardinality(set) # Cardinality(Recorded(set))
Gap(missing) == \E m \in missing : m + 1 \in missing /\ m + 2 \in missing

AggregatePass(t, set) ==
    /\ \A s, q \in set : s.record = q.record
    /\ set # {} /\ ~Duplicate(set)
    /\ Cardinality(Minutes(t) \ Succeeded(set)) <= Misses
    /\ ~Gap(Minutes(t) \ Recorded(set))

\* The canary's aggregate command reads the samples itself and publishes its report; a
\* report that does not pass ends the finalizer.
AggregateSamples ==
    /\ fin # None /\ fin.pc = "cli"
    /\ IF Has(fin.start, "maintenance")
       THEN /\ windows' = [windows EXCEPT
                ![fin.start].docs = @ \cup {"aggregate"},
                ![fin.start].passed = AggregatePass(fin.start, Of(fin.start, samples))]
            /\ fin' = IF AggregatePass(fin.start, Of(fin.start, samples))
                      THEN [fin EXCEPT !.pc = "check"] ELSE None
       ELSE fin' = None /\ UNCHANGED windows
    /\ CanaryKept /\ UNCHANGED <<faults, extra, report>>

\* validate_aggregate judges the report again, also one of an earlier attempt.
ValidAggregate(t) == windows[t].passed

\* Mutant: the aggregate of an earlier attempt is taken as it is.
ReceiptUnvalidated ==
    /\ fin # None /\ fin.pc = "check"
    /\ IF /\ windows[fin.start].inputs = fin.inputs
          /\ Identical(fin.start) /\ Of(fin.start, samples) = fin.inputs
       THEN /\ Put(fin.start, {"receipt"})
            /\ fin' = IF fin.final THEN [fin EXCEPT !.pc = "final"] ELSE None
       ELSE fin' = None /\ UNCHANGED windows
    /\ CanaryKept /\ UNCHANGED <<faults, extra, report>>

\* The inputs are the recorded ones and still the samples there are; the receipt of an
\* earlier attempt must match.
AggregateReceipt ==
    /\ fin # None /\ fin.pc = "check"
    /\ IF /\ windows[fin.start].inputs = fin.inputs
          /\ Identical(fin.start) /\ Of(fin.start, samples) = fin.inputs
          /\ ValidAggregate(fin.start)
       THEN /\ Put(fin.start, {"receipt"})
            /\ fin' = IF fin.final THEN [fin EXCEPT !.pc = "final"] ELSE None
       ELSE fin' = None /\ UNCHANGED windows
    /\ CanaryKept /\ UNCHANGED <<faults, extra, report>>

\* finalize: fresh reports again, and the host and off-host reviews of this aggregate.
Finalize ==
    /\ fin # None /\ fin.pc = "final"
    /\ IF Loaded(fin.start) /\ FreshReport /\ ~Has(fin.start, "final")
       THEN Put(fin.start, {"final"})
       ELSE UNCHANGED windows
    /\ fin' = None
    /\ CanaryKept /\ UNCHANGED <<faults, extra, report>>

KillFinalizer ==
    /\ fin # None /\ Fault /\ fin' = None
    /\ CanaryKept /\ UNCHANGED <<extra, report, windows>>

\* supersede: final for the directory, whatever the window's state.
Supersede(t) ==
    /\ Unlocked /\ Has(t, "declaration") /\ ~Has(t, "superseded")
    /\ Trouble /\ extra < MaxExtra /\ extra' = extra + 1
    /\ Put(t, {"superseded"})
    /\ CanaryKept /\ UNCHANGED <<faults, report, fin>>

Finalizer == AggregateSamples \/ AggregateReceipt \/ Finalize
Operator ==
    \/ Preflight \/ KillFinalizer
    \/ \E t \in Starts : \/ Declare(t) \/ Bind(t) \/ StartupAudit(t) \/ Supersede(t)
                         \/ \E final \in BOOLEAN : AggregateInputs(t, final)

WindowNext ==
    \/ Next /\ fin' = (IF host' THEN fin ELSE None) /\ UNCHANGED <<report, windows>>
    \/ Operator
    \/ Finalizer

WindowSpec == WindowInit /\ [][WindowNext]_allvars

-----------------------------------------------------------------------------
(* Properties.                                                                *)

\* A closed window was earned: apart from the tolerated misses the gateway served a whole
\* flow in every minute of it, every sample is of the declared candidate, and a heartbeat
\* had been accepted shortly before the declaration.
FinalIsEarned ==
    \A t \in Starts : Has(t, "final") =>
        /\ Cardinality({m \in Minutes(t) : \A i \in served : Minute(i) # m}) <= Misses
        /\ \A s \in windows[t].inputs : s.record = windows[t].record
        /\ \E r \in receipts : /\ r.ok /\ r.accepted
                              /\ windows[t].at - r.at \in 0 .. ReportAge + 2

============================================================================
