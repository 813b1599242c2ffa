------------------------------ MODULE Loading ------------------------------
(***************************************************************************)
(* The prove command (tau.cpp, cli.cpp) from its two texts to its answers: *)
(* the rule base is read, then the query; a prover is built from the quads *)
(* of the first, checks that it proves no context that implies false, and  *)
(* answers the second.  Every question, of the check or of the user, is    *)
(* put to a prover with the same rules and no frames.                      *)
(*                                                                         *)
(* The prover of Prover.tla has no terms for lists: a job whose rules have *)
(* lists ends when they are built, as with prover(qkb, false).             *)
(***************************************************************************)
EXTENDS RuleBase

CONSTANTS
    Jobs,     \* what the command is given: the texts kb and query, and check
    Names,    \* the resources that are not variables
    Vars,     \* the names of variables
    TmpVar    \* the variable tmpvar() makes

False == "false"
Gnd == "GND"

VARIABLES
    job,        \* the job
    phase,      \* what the command is at
    qkb,        \* the rule base read: its graphs and its lists
    kb, frames, subst, lastp, cur, rec,  \* the prover at work: Prover
    gnd, e, pstatus,
    pending,    \* consistency's loop: the contexts not yet tried
    c           \* consistency's verdict

Flat(t) == <<t[1], t[2][1], t[3][1]>>
FlatBody(ts) == [i \in DOMAIN ts |-> Flat(ts[i])]
FlatBase == [i \in DOMAIN base |->
                [head |-> Flat(base[i].head), body |-> FlatBody(base[i].body)]]

P == INSTANCE Prover WITH
    status <- pstatus, KBs <- {}, Goals <- {}, MaxQueries <- 1

proverVars == <<kb, frames, subst, lastp, cur, rec, gnd, e, pstatus>>
vars == <<readerVars, job, phase, qkb, ruleBaseVars, proverVars, pending, c>>

ReadingPhases == {"kb", "query"}
ProvingPhases == {"consistency", "contexts", "answering"}
Ends == {"unread", "built", "refused", "answered"}

EmptyQdb == [first |-> [g \in {} |-> <<>>], second |-> [n \in {} |-> <<>>]]

Init ==
    /\ job \in Jobs
    /\ phase = "kb"
    /\ input = job.kb
    /\ stack = <<InGraph(Default)>>
    /\ r = <<>> /\ lists = <<>> /\ qlists = [n \in {} |-> <<>>]
    /\ prefixes = [p \in {} |-> Nil]
    /\ lastid = 0 /\ curlies = 0
    /\ status = "reading"
    /\ qkb = EmptyQdb
    /\ graphs = [g \in {} |-> <<>>] /\ todo = <<>> /\ base = <<>>
    /\ kb = <<>> /\ frames = <<>> /\ subst = <<>>
    /\ lastp = 0 /\ cur = 0 /\ rec = 0
    /\ gnd = {} /\ e = {} /\ pstatus = "idle"
    /\ pending = {}
    /\ c = TRUE

---------------------------------------------------------------------------
(* load_quads, twice.  An exception of the reader ends the command.        *)

ReadOn ==
    /\ phase \in ReadingPhases
    /\ Read
    /\ UNCHANGED <<job, phase, qkb, ruleBaseVars, proverVars, pending, c>>

LoadFailed ==
    /\ phase \in ReadingPhases
    /\ status \in {"threw", "overrun"}
    /\ phase' = "unread"
    /\ UNCHANGED <<readerVars, job, qkb, ruleBaseVars, proverVars, pending, c>>

KbLoaded ==
    /\ phase = "kb"
    /\ status = "read"
    /\ qkb' = [first |-> GraphsOf(r), second |-> qlists]
    /\ phase' = "query"
    /\ StartReading(job.query)
    /\ UNCHANGED <<lastid, curlies, job, ruleBaseVars, proverVars, pending, c>>

---------------------------------------------------------------------------
(* The constructor.                                                        *)

QueryLoaded ==
    /\ phase = "query"
    /\ status = "read"
    /\ IF Default \in DOMAIN qkb.first
       THEN StartRules(qkb.first) /\ phase' = "rules"
       ELSE phase' = "refused" /\ UNCHANGED ruleBaseVars
    /\ UNCHANGED <<readerVars, job, qkb, proverVars, pending, c>>

AddRule ==
    /\ phase = "rules"
    /\ AddRules(qkb.second)
    /\ UNCHANGED <<readerVars, job, phase, qkb, proverVars, pending, c>>

\* A copy of the prover: the same rules, nothing else.
FreshProver ==
    /\ kb' = FlatBase
    /\ frames' = <<>> /\ subst' = <<>>
    /\ lastp' = 0 /\ cur' = 0 /\ rec' = 0
    /\ gnd' = {} /\ e' = {} /\ pstatus' = "idle"

Asked == frames # <<>>
Over == Asked /\ pstatus = "idle"

RulesBuilt ==
    /\ phase = "rules"
    /\ todo = <<>>
    /\ IF job.check
       THEN FreshProver /\ phase' = "consistency"
       ELSE UNCHANGED proverVars /\ phase' = "built"
    /\ UNCHANGED <<readerVars, job, qkb, ruleBaseVars, pending, c>>

---------------------------------------------------------------------------
(* consistency: everything that implies false is asked for, and each must  *)
(* not be provable.                                                        *)

AskFalse ==
    /\ phase = "consistency"
    /\ ~Asked
    /\ P!DoQuery(<<<<Implies, TmpVar, False>>>>)
    /\ UNCHANGED <<readerVars, job, phase, qkb, ruleBaseVars, pending, c>>

FalseAsked ==
    /\ phase = "consistency"
    /\ Over
    /\ pending' = {x.t[2] : x \in e} \ {Gnd}
    /\ phase' = "contexts"
    /\ FreshProver
    /\ UNCHANGED <<readerVars, job, qkb, ruleBaseVars, c>>

\* Altered TryContext: the loop stays at a context.
TryContextAgain ==
    /\ phase = "contexts"
    /\ ~Asked
    /\ \E s \in pending :
        IF s \in DOMAIN graphs
        THEN /\ P!DoQuery(FlatBody(TermSet(graphs[s], EmptyQdb.second)))
             /\ UNCHANGED <<pending, phase>>
        ELSE /\ phase' = "refused"
             /\ UNCHANGED <<proverVars, pending>>
    /\ UNCHANGED <<readerVars, job, qkb, ruleBaseVars, c>>

\* Altered TryContext: what names no graph is passed over.
TryContextSkips ==
    /\ phase = "contexts"
    /\ ~Asked
    /\ \E s \in pending :
        /\ pending' = pending \ {s}
        /\ IF s \in DOMAIN graphs
           THEN P!DoQuery(FlatBody(TermSet(graphs[s], EmptyQdb.second)))
           ELSE UNCHANGED proverVars
    /\ UNCHANGED <<readerVars, job, phase, qkb, ruleBaseVars, c>>

\* The graph is looked up by name; what names no graph throws.
TryContext ==
    /\ phase = "contexts"
    /\ ~Asked
    /\ \E s \in pending :
        IF s \in DOMAIN graphs
        THEN /\ P!DoQuery(FlatBody(TermSet(graphs[s], EmptyQdb.second)))
             /\ pending' = pending \ {s}
             /\ UNCHANGED phase
        ELSE /\ phase' = "refused"
             /\ UNCHANGED <<proverVars, pending>>
    /\ UNCHANGED <<readerVars, job, qkb, ruleBaseVars, c>>

ContextTried ==
    /\ phase = "contexts"
    /\ Over
    /\ c' = (c /\ e = {})
    /\ FreshProver
    /\ UNCHANGED <<readerVars, job, phase, qkb, ruleBaseVars, pending>>

Checked ==
    /\ phase = "contexts"
    /\ ~Asked
    /\ pending = {}
    /\ phase' = IF c THEN "answering" ELSE "refused"
    /\ UNCHANGED <<readerVars, job, qkb, ruleBaseVars, proverVars, pending, c>>

---------------------------------------------------------------------------
(* query.                                                                  *)

QueryGoal == LET qdb == GraphsOf(r)
             IN  FlatBody(Goal(qdb, SetToSeq(DOMAIN qdb), qlists))

AskQuery ==
    /\ phase = "answering"
    /\ ~Asked
    /\ P!DoQuery(QueryGoal)
    /\ UNCHANGED <<readerVars, job, phase, qkb, ruleBaseVars, pending, c>>

QueryAnswered ==
    /\ phase = "answering"
    /\ Over
    /\ phase' = "answered"
    /\ UNCHANGED <<readerVars, job, qkb, ruleBaseVars, proverVars, pending, c>>

Prove ==
    /\ phase \in ProvingPhases
    /\ P!Step \/ P!PushEv
    /\ UNCHANGED <<readerVars, job, phase, qkb, ruleBaseVars, pending, c>>

ProverThrew ==
    /\ phase \in ProvingPhases
    /\ pstatus = "threw"
    /\ phase' = "refused"
    /\ UNCHANGED <<readerVars, job, qkb, ruleBaseVars, proverVars, pending, c>>

Build == QueryLoaded \/ AddRule \/ RulesBuilt
Check == AskFalse \/ FalseAsked \/ TryContext \/ ContextTried \/ Checked
Answer == AskQuery \/ QueryAnswered

Next == \/ ReadOn \/ LoadFailed \/ KbLoaded \/ Build \/ Check \/ Answer
        \/ Prove \/ ProverThrew
=============================================================================
