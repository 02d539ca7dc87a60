-------------------------------- MODULE Search --------------------------------
(***************************************************************************)
(* /api/v2/search: a term is classified by its shape, the namespaces that  *)
(* shape belongs to are probed one after the other, and what they hold is  *)
(* returned.  Lookups of an exact address, transaction or id swallow every *)
(* AlgorandError; the lookup of a unit name or name lets it through.       *)
(*                                                                         *)
(* The chain behind the indexer is external and changes between probes.    *)
(***************************************************************************)
EXTENDS Validation, ErrorHandler, Sequences

CONSTANTS
    MaxChanges       (* bound: changes of the chain                        *)

Namespaces == {"account", "transaction", "asset", "application", "unit", "name"}

ASSUME SearchAssumption == MaxChanges \in Nat /\ None \notin Namespaces

VARIABLES
    term,            (* the term of the request                            *)
    pc,              (* the namespace being probed                         *)
    results,         (* the namespaces an item was found in, in order      *)
    reply,           (* the status of the response                         *)
    matching,        (* external: the namespaces the term matches now      *)
    changes,         (* changes of the chain so far                        *)
    asked,           (* history: the upstream calls made                   *)
    failed,          (* history: the namespaces whose probe failed         *)
    always           (* history: matched ever since the request arrived    *)

vars == <<term, pc, results, reply, matching, changes, asked, failed, always>>

FirstProbe(t) ==
    CASE Shape(t) = "address" -> "account"
      [] Shape(t) = "transaction" -> "transaction"
      [] Shape(t) = "numeric" -> "asset"
      [] OTHER -> "unit"

\* Where to look after namespace n: an id is looked up as an asset and as an
\* application, a name only if no unit name matched.
AfterFirstHitMutant(n, hit) ==         \* an id that names an asset is no app
    CASE n = "asset" /\ ~hit -> "application"
      [] n = "unit" /\ ~hit -> "name"
      [] OTHER -> "done"

After(n, hit) ==
    CASE n = "asset" -> "application"
      [] n = "unit" /\ ~hit -> "name"
      [] OTHER -> "done"

Init ==
    /\ term \in Terms
    /\ matching \in SUBSET CanMatch(term)
    /\ pc = "new"
    /\ results = <<>>
    /\ reply = None
    /\ changes = 0
    /\ asked = <<>>
    /\ failed = {}
    /\ always = {}

------------------------------------------------------------------------------
Respond(status) == pc' = "done" /\ reply' = status

Probe(n) ==
    /\ pc' = n
    /\ asked' = Append(asked, n)
    /\ UNCHANGED reply

\* The request: classified, and either answered at once or probed.
Arrive ==
    /\ pc = "new"
    /\ always' = matching
    /\ CASE Shape(term) = "numeric" /\ term.number = None ->      \* int() raises
              Respond(500) /\ UNCHANGED asked
         [] Shape(term) = "numeric" /\ term.number # None /\ ~ValidUint64(term) ->
              Respond(200) /\ UNCHANGED asked
         [] OTHER -> Probe(FirstProbe(term))
    /\ UNCHANGED <<term, results, matching, changes, failed>>

\* The probe of n is over: on to the next namespace, or to the response.
Continue(n, hit) ==
    /\ IF After(n, hit) = "done"
       THEN Respond(200) /\ UNCHANGED asked
       ELSE Probe(After(n, hit))
    /\ UNCHANGED <<term, matching, changes, always>>

Hit(n) ==
    /\ pc = n
    /\ n \in matching
    /\ results' = Append(results, n)
    /\ Continue(n, TRUE)
    /\ UNCHANGED failed

\* A 404, an empty list, or a payload without the transaction.
Miss(n) ==
    /\ pc = n
    /\ n \notin matching
    /\ Continue(n, FALSE)
    /\ UNCHANGED <<results, failed>>

\* The lookups of a name are in no try block.
LetsThrough(n) == n \in {"unit", "name"}

\* Any AlgorandError: a failing lookup is a miss, unless names are looked up.
ProbeFailsQuietlyMutant(n, failure) ==            \* the except clause is everywhere
    /\ pc = n
    /\ failed' = failed \cup {n}
    /\ Continue(n, FALSE)
    /\ UNCHANGED results

ProbeFails(n, failure) ==
    /\ pc = n
    /\ failed' = failed \cup {n}
    /\ IF LetsThrough(n)
       THEN /\ Respond(Attributed(failure))
            /\ UNCHANGED <<term, matching, changes, always, asked>>
       ELSE Continue(n, FALSE)
    /\ UNCHANGED results

\* Any other exception is a 500, whichever lookup it strikes.
ProbeRaises ==
    /\ pc \in Namespaces
    /\ Respond(500)
    /\ failed' = failed \cup {pc}
    /\ UNCHANGED <<term, results, matching, changes, asked, always>>

\* Objects are created, closed and destroyed; a confirmed transaction stays.
ChainChanges(n) ==
    /\ changes < MaxChanges
    /\ pc # "done"
    /\ n = "transaction" => n \notin matching
    /\ matching' = IF n \in matching THEN matching \ {n} ELSE matching \cup {n}
    /\ always' = always \cap matching'
    /\ changes' = changes + 1
    /\ UNCHANGED <<term, pc, results, reply, asked, failed>>

Next ==
    \/ Arrive
    \/ \E n \in Namespaces :
          \/ Hit(n)
          \/ Miss(n)
          \/ \E failure \in Failures : ProbeFails(n, failure)
    \/ ProbeRaises
    \/ \E n \in CanMatch(term) : ChainChanges(n)

Spec == Init /\ [][Next]_vars

------------------------------------------------------------------------------
(* Type invariant.                                                         *)
TypeOK ==
    /\ term \in Terms
    /\ pc \in Namespaces \cup {"new", "done"}
    /\ results \in Seq(Namespaces)
    /\ reply \in {None, 200, 400, 404, 429, 500, 502}
    /\ matching \subseteq CanMatch(term)
    /\ asked \in Seq(Namespaces)
    /\ failed \subseteq Namespaces
    /\ always \subseteq matching

Searched(t) ==
    CASE Shape(t) = "address" -> {"account"}
      [] Shape(t) = "transaction" -> {"transaction"}
      [] Shape(t) = "numeric" -> {"asset", "application"}
      [] OTHER -> {"unit", "name"}

Found == {results[i] : i \in DOMAIN results}

\* "both are probed and both are returned when both hit" (search,
\* service.py:411): whatever existed all through the request is in the answer,
\* unless the very probe that would have found it failed.  One failing probe
\* costs its own namespace only.  A name is looked for only if no unit matched.
LastingIsFound ==
    reply = 200 =>
        \A n \in (always \cap Searched(term)) \ failed :
            n \in Found \/ (n = "name" /\ "unit" \in Found)

\* A list of candidates is never cut short by an outage: a name search that
\* answers 200 asked everything it had to and heard from it.
OutageShows == Shape(term) = "other" /\ reply = 200 => failed = {}
==============================================================================
