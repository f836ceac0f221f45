----------------------------- MODULE PolicyCache -----------------------------
(* The policy engine: the cache of the policy sets of each server, the       *)
(* administrator's edits that clear it, and the order in which rules win.    *)
EXTENDS Integers, Sequences, SequencesExt

CONSTANTS
    PServers,     \* servers with tools
    Global,       \* the scope of the sets without a server
    PEvals,       \* evaluations of tool calls
    PEditors,     \* requests of administrators
    PolicyTtl,    \* CACHE_TTL_MS in ticks
    MaxTime,      \* bound: ticks
    MaxEdits,     \* bound: edits in all
    EditAttempts, \* attempts to get a version number
    Priorities,   \* priorities that rules are given
    NoPolicy      \* none: no entry, server, scope or priority
ASSUME PolicyAssumption == {PolicyTtl, MaxTime, MaxEdits, EditAttempts} \subseteq Nat \ {0}
ASSUME PriorityAssumption == Priorities \subseteq Int /\ NoPolicy \notin Priorities
Scopes == PServers \cup {Global}

VARIABLES
    pcNow,      \* Date.now()
    pcEdits,    \* edits so far, for the bound
    pcEnded,    \* when the n-th content of a scope was replaced by an edit
    pcRows,     \* rows of a scope, in the order of creation: the version, 0 if deleted
    pcCache,    \* cache: per server the contents of its two scopes, and fetchedAt
    pcEval,     \* evaluations
    pcEditor,   \* editors
    pcCleared,  \* per server the contents when its entry was last cleared
    pcRaced,    \* servers whose entry comes from a fetch that a clear overtook
    pcSets      \* policy sets of one call, for the order of the rules
policyVars == <<pcNow, pcEdits, pcEnded, pcRows, pcCache, pcEval, pcEditor, pcCleared, pcRaced, pcSets>>

IdleEval == [pc |-> "idle", srv |-> NoPolicy, at |-> 0, own |-> 0, glob |-> 0, stale |-> FALSE]
IdleEditor == [pc |-> "idle", scope |-> NoPolicy, row |-> 0, latest |-> 0, attempt |-> 0]

\* The active sets of a scope are told apart by the edits before them.
Content(s) == Len(pcEnded[s])

\* A rule has a priority or none, matches the call (matcher and conditions) or
\* does not, and decides.
Decisions == {"ALLOW", "REQUIRE_APPROVAL", "DENY"}
Rules == [prio : Priorities \cup {NoPolicy}, hit : BOOLEAN, decision : Decisions \cup {"other"}]

\* The policy sets of a call are any; a run names those it tries.
PolicyInit ==
    /\ pcSets \in Seq(Seq(Rules))
    /\ pcNow = 0 /\ pcEdits = 0
    /\ pcEnded = [s \in Scopes |-> <<>>]
    /\ pcRows = [s \in Scopes |-> <<>>]
    /\ pcCache = [s \in PServers |-> NoPolicy]
    /\ pcEval = [p \in PEvals |-> IdleEval]
    /\ pcEditor = [a \in PEditors |-> IdleEditor]
    /\ pcCleared = [s \in PServers |-> [own |-> 0, glob |-> 0]]
    /\ pcRaced = {}

Tick ==
    /\ pcNow < MaxTime
    /\ pcNow' = pcNow + 1
    /\ UNCHANGED <<pcEdits, pcEnded, pcRows, pcCache, pcEval, pcEditor, pcCleared, pcRaced, pcSets>>

\* An entry is used while it is younger than the TTL: evaluate decides by it at
\* once and changes nothing.
Usable(s) == pcCache[s] # NoPolicy /\ pcNow - pcCache[s].at < PolicyTtl

\* evaluate without one: the time is taken before the two queries, which run
\* in parallel.
EvaluateFetch(p, s) ==
    /\ pcEval[p].pc = "idle" /\ ~Usable(s)
    /\ pcEval' = [pcEval EXCEPT ![p] = [IdleEval EXCEPT !.pc = "both", !.srv = s, !.at = pcNow]]
    /\ UNCHANGED <<pcNow, pcEdits, pcEnded, pcRows, pcCache, pcEditor, pcCleared, pcRaced, pcSets>>

ReadOwn(p) ==
    /\ pcEval[p].pc \in {"both", "own"}
    /\ pcEval' = [pcEval EXCEPT ![p].own = Content(pcEval[p].srv),
                                ![p].pc = IF @ = "both" THEN "glob" ELSE "install"]
    /\ UNCHANGED <<pcNow, pcEdits, pcEnded, pcRows, pcCache, pcEditor, pcCleared, pcRaced, pcSets>>
ReadGlobal(p) ==
    /\ pcEval[p].pc \in {"both", "glob"}
    /\ pcEval' = [pcEval EXCEPT ![p].glob = Content(Global),
                                ![p].pc = IF @ = "both" THEN "own" ELSE "install"]
    /\ UNCHANGED <<pcNow, pcEdits, pcEnded, pcRows, pcCache, pcEditor, pcCleared, pcRaced, pcSets>>

\* Mutant: the entry is as old as its installation.
InstallNow(p) ==
    LET e == pcEval[p] IN
    /\ e.pc = "install"
    /\ pcCache' = [pcCache EXCEPT ![e.srv] = [own |-> e.own, glob |-> e.glob, at |-> pcNow]]
    /\ pcRaced' = IF e.stale THEN pcRaced \cup {e.srv} ELSE pcRaced \ {e.srv}
    /\ pcEval' = [pcEval EXCEPT ![p] = IdleEval]
    /\ UNCHANGED <<pcNow, pcEdits, pcEnded, pcRows, pcEditor, pcCleared, pcSets>>

\* The entry is set with the time before the queries; the call is decided.
Install(p) ==
    LET e == pcEval[p] IN
    /\ e.pc = "install"
    /\ pcCache' = [pcCache EXCEPT ![e.srv] = [own |-> e.own, glob |-> e.glob, at |-> e.at]]
    /\ pcRaced' = IF e.stale THEN pcRaced \cup {e.srv} ELSE pcRaced \ {e.srv}
    /\ pcEval' = [pcEval EXCEPT ![p] = IdleEval]
    /\ UNCHANGED <<pcNow, pcEdits, pcEnded, pcRows, pcEditor, pcCleared, pcSets>>

\* A query throws: evaluate throws and nothing is cached.
FetchFails(p) ==
    /\ pcEval[p].pc \in {"both", "own", "glob"}
    /\ pcEval' = [pcEval EXCEPT ![p] = IdleEval]
    /\ UNCHANGED <<pcNow, pcEdits, pcEnded, pcRows, pcCache, pcEditor, pcCleared, pcRaced, pcSets>>

LatestVersion(s) == Max(Range(pcRows[s]) \cup {0})

\* PolicyRepository.create, and update with new rules: a row of the scope or a
\* new one, and the latest version of the scope...
EditBegins(a, s, row) ==
    /\ pcEditor[a].pc = "idle" /\ pcEdits < MaxEdits
    /\ row \in 1..(Len(pcRows[s]) + 1)
    /\ row <= Len(pcRows[s]) => pcRows[s][row] # 0
    /\ pcEditor' = [pcEditor EXCEPT ![a] = [pc |-> IF row > Len(pcRows[s]) THEN "create" ELSE "update",
                       scope |-> s, row |-> row, attempt |-> 1, latest |-> LatestVersion(s)]]
    /\ UNCHANGED <<pcNow, pcEdits, pcEnded, pcRows, pcCache, pcEval, pcCleared, pcRaced, pcSets>>

Edited(s, rows) ==
    /\ pcEdits' = pcEdits + 1
    /\ pcEnded' = [pcEnded EXCEPT ![s] = Append(@, pcNow)]
    /\ pcRows' = [pcRows EXCEPT ![s] = rows]

WithVersion(e, v) == IF e.pc = "create" THEN Append(pcRows[e.scope], v)
                                        ELSE [pcRows[e.scope] EXCEPT ![e.row] = v]

\* Mutant: the unique index is missing.
WriteSetUnchecked(a) ==
    LET e == pcEditor[a] IN
    /\ e.pc \in {"create", "update"} /\ pcEdits < MaxEdits
    /\ e.pc = "update" => pcRows[e.scope][e.row] # 0
    /\ Edited(e.scope, WithVersion(e, e.latest + 1))
    /\ pcEditor' = [pcEditor EXCEPT ![a].pc = "clear"]
    /\ UNCHANGED <<pcNow, pcCache, pcEval, pcCleared, pcRaced, pcSets>>

\* ... and write it with the next one; the unique index refuses a number that
\* another editor took in the meantime, and the editor looks again. An update
\* of a row that was deleted throws.
WriteSet(a) ==
    LET e == pcEditor[a]
        gone == e.pc = "update" /\ pcRows[e.scope][e.row] = 0
        taken == e.latest + 1 \in Range(pcRows[e.scope]) IN
    /\ e.pc \in {"create", "update"} /\ pcEdits < MaxEdits
    /\ IF gone \/ taken
       THEN /\ pcEditor' = [pcEditor EXCEPT ![a] =
                   IF ~gone /\ e.attempt < EditAttempts
                   THEN [e EXCEPT !.attempt = @ + 1, !.latest = LatestVersion(e.scope)] ELSE IdleEditor]
            /\ UNCHANGED <<pcEdits, pcEnded, pcRows>>
       ELSE /\ Edited(e.scope, WithVersion(e, e.latest + 1))
            /\ pcEditor' = [pcEditor EXCEPT ![a].pc = "clear"]
    /\ UNCHANGED <<pcNow, pcCache, pcEval, pcCleared, pcRaced, pcSets>>

\* update of the status alone, which keeps the version, and delete.
ChangeSet(a, s, row, deleted) ==
    /\ pcEditor[a].pc = "idle" /\ pcEdits < MaxEdits
    /\ row \in DOMAIN pcRows[s] /\ pcRows[s][row] # 0
    /\ Edited(s, IF deleted THEN [pcRows[s] EXCEPT ![row] = 0] ELSE pcRows[s])
    /\ pcEditor' = [pcEditor EXCEPT ![a] = [IdleEditor EXCEPT !.pc = "clear", !.scope = s]]
    /\ UNCHANGED <<pcNow, pcCache, pcEval, pcCleared, pcRaced, pcSets>>

\* Mutant: the key of the scope only.
KeysOne(s) == {s} \cap PServers

\* clearCache: the entry of the server, or all of them for a global set.
KeysOf(s) == IF s = Global THEN PServers ELSE {s}

\* The handler clears the cache after the write; fetches under way go on.
ClearCache(a) ==
    LET e == pcEditor[a] IN
    /\ e.pc = "clear"
    /\ pcCache' = [s \in PServers |-> IF s \in KeysOf(e.scope) THEN NoPolicy ELSE pcCache[s]]
    /\ pcCleared' = [s \in PServers |-> IF e.scope = Global \/ s = e.scope
                        THEN [own |-> Content(s), glob |-> Content(Global)] ELSE pcCleared[s]]
    /\ pcEval' = [p \in PEvals |-> [pcEval[p] EXCEPT !.stale =
                     @ \/ (pcEval[p].pc # "idle" /\ (e.scope = Global \/ pcEval[p].srv = e.scope))]]
    /\ pcEditor' = [pcEditor EXCEPT ![a] = IdleEditor]
    /\ UNCHANGED <<pcNow, pcEdits, pcEnded, pcRows, pcRaced, pcSets>>

PolicyNext ==
    \/ Tick
    \/ \E p \in PEvals :
        \/ \E s \in PServers : EvaluateFetch(p, s)
        \/ ReadOwn(p) \/ ReadGlobal(p) \/ Install(p) \/ FetchFails(p)
    \/ \E a \in PEditors :
        \/ \E s \in Scopes, row \in 1..(MaxEdits + 1) :
            EditBegins(a, s, row) \/ \E d \in BOOLEAN : ChangeSet(a, s, row, d)
        \/ WriteSet(a) \/ ClearCache(a)
PolicySpec == PolicyInit /\ [][PolicyNext]_policyVars

-----------------------------------------------------------------------------
(* The order of the rules.                                                   *)

\* Mutant: a rule without a priority comes first.
PriorityOrZero(r) == IF r.prio = NoPolicy THEN 0 ELSE r.prio

\* (a.priority ?? 1000)
PriorityOf(r) == IF r.prio = NoPolicy THEN 1000 ELSE r.prio

\* Array.sort is stable.
Before(rules, i, j) ==
    \/ PriorityOf(rules[i]) < PriorityOf(rules[j])
    \/ PriorityOf(rules[i]) = PriorityOf(rules[j]) /\ i < j
SortedRules(rules) ==
    LET order == CHOOSE p \in Surjection(DOMAIN rules, DOMAIN rules) :
                    \A m, n \in DOMAIN rules : m < n => Before(rules, p[m], p[n])
    IN  [n \in DOMAIN rules |-> rules[order[n]]]

\* mapDecision
MapDecision(d) == IF d \in Decisions THEN d ELSE "ALLOW"

\* PolicyDslEvaluator.evaluate: the first rule that matches, in the sorted
\* order, or 0.
FirstHit(rules) == SelectInSeq(SortedRules(rules), LAMBDA r : r.hit)

\* evaluate: the rule of the first set that has one, or what the danger level
\* of the tool says.
EvaluateSets(sets, fallback) ==
    LET n == SelectInSeq(sets, LAMBDA rules : FirstHit(rules) # 0)
    IN  IF n = 0 THEN fallback ELSE MapDecision(SortedRules(sets[n])[FirstHit(sets[n])].decision)

-----------------------------------------------------------------------------
(* Properties *)

\* The types of the variables.
PolicyTypeOK ==
    /\ pcNow \in 0..MaxTime
    /\ pcEdits \in 0..MaxEdits /\ \A s \in Scopes : Content(s) \in 0..pcEdits
    /\ \A s \in PServers : pcCache[s] # NoPolicy => pcCache[s].at \in 0..pcNow
    /\ \A p \in PEvals : pcEval[p].pc \in {"idle", "both", "own", "glob", "install"}
    /\ \A a \in PEditors : pcEditor[a].attempt <= EditAttempts
    /\ pcRaced \subseteq PServers

\* No two sets of a scope have the same version, whatever editors race and
\* sets are deleted (PolicyRepository.ts:85-107).
VersionsDiffer ==
    \A s \in Scopes : \A i, j \in DOMAIN pcRows[s] : pcRows[s][i] = pcRows[s][j] => i = j \/ pcRows[s][i] = 0

\* A decision from the cache follows policies that were in force less than the
\* TTL ago, in spite of fetches that a clear overtakes and that read the two
\* scopes at different times (PolicyEngine.ts:72-82).
HitsAreRecent ==
    \A s \in PServers : Usable(s) =>
        \A k \in {<<s, pcCache[s].own>>, <<Global, pcCache[s].glob>>} :
            k[2] < Content(k[1]) => pcNow - pcEnded[k[1]][k[2] + 1] < PolicyTtl

\* Once an administrator's request has cleared the cache, no call is decided
\* by the older policies from it, on any server the set applies to, unless a
\* fetch was under way (PolicyHandler.ts:24-25, PolicyEngine.ts:168-175).
ClearedIsGone ==
    \A s \in PServers \ pcRaced : pcCache[s] # NoPolicy =>
        pcCache[s].own >= pcCleared[s].own /\ pcCache[s].glob >= pcCleared[s].glob

\* The decision is that of the matching rule that comes first by set, then by
\* priority, then by position; the sets of the server come before the global
\* ones (PolicyDslEvaluator.ts:34-66, PolicyEngine.ts:88-125).
FirstRuleDecides ==
    LET live == {k \in UNION {{n} \X DOMAIN pcSets[n] : n \in DOMAIN pcSets} : pcSets[k[1]][k[2]].hit}
        Rule(k) == pcSets[k[1]][k[2]]
        Prio(k) == IF Rule(k).prio \in Priorities THEN Rule(k).prio ELSE 1000
        Beats(k, m) == \/ k[1] < m[1]
                       \/ k[1] = m[1] /\ Prio(k) < Prio(m)
                       \/ k[1] = m[1] /\ Prio(k) = Prio(m) /\ k[2] <= m[2]
    IN  \A fallback \in {"ALLOW", "REQUIRE_APPROVAL"} :
          IF live = {} THEN EvaluateSets(pcSets, fallback) = fallback
          ELSE \E k \in live : /\ \A m \in live : Beats(k, m)
                               /\ EvaluateSets(pcSets, fallback) =
                                     IF Rule(k).decision = "other" THEN "ALLOW" ELSE Rule(k).decision

\* Calls are decided by the rules in force, as they are ranked, and not for
\* longer than the cache is meant to hold them (PolicyEngine.ts).
PoliciesFollowed == PolicyTypeOK /\ VersionsDiffer /\ HitsAreRecent /\ ClearedIsGone /\ FirstRuleDecides
=============================================================================
