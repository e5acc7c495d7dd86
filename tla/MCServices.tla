----------------------------- MODULE MCServices -----------------------------
\* The instance of the services that TLC checks.
EXTENDS Services, TLC

\* A text of one chunk and one of two chunks.
MCSize == [t \in {"short", "long"} |-> IF t = "short" THEN 1 ELSE 2]

\* A workflow of two statuses.
MCKeys == <<"todo", "done">>
MCLinks == << <<"todo", "done">> >>

\* The platform without a scope_id and with 5 as one, an organization with two
\* workspaces, the first with a project and a team.
MCScopes == {"platform", "platform_5", "o1", "w1", "w2", "p1", "t1"}
MCKind == [s \in MCScopes |->
  CASE s \in {"platform", "platform_5"} -> "platform" [] s = "o1" -> "organization" [] s \in {"w1", "w2"} -> "workspace"
    [] s = "p1" -> "project" [] OTHER -> "team"]
MCParent == [s \in MCScopes |->
  CASE s \in {"platform", "platform_5", "o1"} -> "platform" [] s \in {"w1", "w2"} -> "o1" [] OTHER -> "w1"]

\* A code of one template and a code of both.
MCCatalogCodes == <<"a">>
MCTemplates == <<"t", "u">>
MCPatterns == [t \in {"t", "u"} |-> IF t = "t" THEN {"a", "b"} ELSE {"b"}]

\* Two rules that answer each other, and one that cannot act.
Rule(trigger, when, does, field, value) ==
  [trigger |-> trigger, when |-> when, does |-> does, field |-> field, value |-> value, is_active |-> TRUE]
MCShapes == {
  Rule("status", NULL, "update", "priority", 2),
  Rule("status", <<"priority", 2>>, "update", "status", 1),
  Rule("created", NULL, "malformed", NULL, NULL)}

Sym == Permutations(Requests)
=============================================================================
