---------------------------- MODULE RulePipeline ----------------------------
(***************************************************************************)
(* The life of a rule: parsed, evaluated, linearized and sent to the       *)
(* kernel with its sets, listed from there, and loaded again from the JSON *)
(* listing.  Each pass is a function of what the pass before it made, so   *)
(* all a behaviour chooses is the rule; the properties are about the step  *)
(* that takes it through the passes.                                       *)
(***************************************************************************)
EXTENDS Meaning, JsonParse

CONSTANTS Rules, Packets

VARIABLES
  rule,      \* the rule as its author wrote it
  loaded     \* whether nft has run on it

vars == <<rule, loaded>>

(***************************************************************************)
(* The passes.                                                             *)
(***************************************************************************)
\* nft_run_cmd_from_buffer() on one rule: it ends loaded, or refused with a
\* message, or aborted on a BUG() or a NULL pointer.
LoadRule(family, named, stmts) ==
  LET c == rule_evaluate(family, named, stmts)
      l == netlink_linearize_rule(c.done)
      sets == c.sets @@ c.named
  IN CASE c.bug -> [end |-> "aborted"]
       [] c.err /\ ~c.bug -> [end |-> "refused"]
       [] ~c.err /\ ~c.bug /\ l.bug -> [end |-> "aborted"]
       [] OTHER -> [end |-> "loaded", code |-> l.code, reg |-> l.reg,
                    sets |-> [n \in DOMAIN sets |-> do_add_set(sets[n])]]

\* nft -j list ruleset, of a rule that the kernel has.
ListRule(family, kernel) ==
  LET sets == [n \in DOMAIN kernel.sets |-> netlink_list_setelems(kernel.sets[n])]
      d == netlink_delinearize_rule(family, sets, kernel.code)
  IN IF d.bug \/ d.err THEN [end |-> "aborted"]
     ELSE [end |-> "listed", sets |-> sets, doc |-> rule_print_json(family, d.stmts)]

\* nft -j -f, on a listing after a flush: the sets with a name are objects of
\* the listing, the others are in the rules that use them.
ReloadRule(family, listing) ==
  LET parsed == ParseRule(listing.doc)
      named == {n \in DOMAIN listing.sets : "anonymous" \notin listing.sets[n].flags}
  IN CASE Crash \in Range(parsed) -> [end |-> "aborted"]
       [] Crash \notin Range(parsed) /\ Bad \in Range(parsed) -> [end |-> "refused"]
       [] OTHER -> LoadRule(family, [n \in named |-> listing.sets[n]], parsed)

FirstLoad(r) == LoadRule(r.family, r.named, r.stmts)

\* The second load of a rule that the first one put into the kernel.
SecondLoad(r, kernel) ==
  LET listing == ListRule(r.family, kernel)
  IN IF listing.end = "listed" THEN ReloadRule(r.family, listing) ELSE listing

(***************************************************************************)
(* The specification.                                                      *)
(***************************************************************************)
Init == /\ \E k \in DOMAIN Rules : rule = Rules[k]
        /\ loaded = FALSE

RunRule == /\ ~loaded
           /\ loaded' = TRUE
           /\ UNCHANGED rule

Next == RunRule

Spec == Init /\ [][Next]_vars

(***************************************************************************)
(* Properties.                                                             *)
(***************************************************************************)
\* The packets that a table of a family sees.
Seen(family) ==
  LET of(p) == p.desc["network"]
  IN {k \in DOMAIN Packets : CASE family \in {"ip", "ip6", "arp"} -> of(Packets[k]) = family
                                [] family = "inet" -> of(Packets[k]) \in {"ip", "ip6"}
                                [] OTHER -> TRUE}

Meant(r, k) == RuleMeaning(r.stmts, Packets[k] @@ [named |-> r.named])

\* The program in the kernel does to every packet what the rule says.
AsWritten(r, kernel) == \A k \in Seen(r.family) : Run(kernel.code, kernel.sets, Packets[k]) = Meant(r, k)

\* Evaluation and linearization never reach a BUG(), and the only rules they
\* refuse are those that no packet could match: a dependency that is
\* generated for one match never collides with what another match implies.
OnlyContradictionsRefused ==
  [][FirstLoad(rule).end # "aborted"
     /\ (FirstLoad(rule).end = "refused" => \A k \in Seen(rule.family) : Meant(rule, k).eff = <<>>)]_vars

\* What the kernel runs is what the rule says, for every packet of the
\* families the table sees: generated dependencies, byte order conversions,
\* merged payload loads, masks, implicit sets and maps included.
ProgramMeansRule ==
  [][LET k == FirstLoad(rule) IN k.end = "loaded" => AsWritten(rule, k)]_vars

\* The registers that netlink_linearize_rule() takes for the operands of a
\* rule have all been given back at its end, whatever statements it has.
RegistersBalanced ==
  [][LET k == FirstLoad(rule) IN k.end = "loaded" => k.reg = FirstReg]_vars

\* Whatever nft loaded it lists, and nft -j -f takes that listing back.
ListingAccepted ==
  [][LET k == FirstLoad(rule) IN k.end = "loaded" => SecondLoad(rule, k).end = "loaded"]_vars

\* The listing, loaded again, does to every packet what the rule says:
\* dependencies that were removed from the listing are implied by what is
\* left of it, and values are printed in the form they are read.
ReloadMeansRule ==
  [][LET k == FirstLoad(rule)
         again == SecondLoad(rule, k)
     IN k.end = "loaded" /\ again.end = "loaded" => AsWritten(rule, again)]_vars
=============================================================================
