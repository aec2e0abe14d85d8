----------------------------- MODULE MCClients -----------------------------
EXTENDS Clients, TLC
CONSTANTS s1, s2

Op(from, to) == [op |-> "rename_function", old_name |-> from, new_name |-> to]
InlineOp(f) == [op |-> "inline_function", function |-> f]
DeriveOp(t) == [op |-> "add_derive_to_struct", type_name |-> t, derives |-> <<"Debug">>]

TypedOp(new) == [op |-> "rename_function_typed", decl_file |-> "file", decl_line |-> 0,
                 decl_character |-> 3, new_name |-> new]
ExtractOp(new) == [op |-> "extract_function", source_file |-> "file", start_line |-> 2,
                   end_line |-> 2, new_name |-> new]

MCFirstText == [names |-> {"f", "T"}, rest |-> {}]
MCTypes == {"T"}
MCUserPlans == {<<Op("f", "g")>>}

\* The rest of a text is which derives and helper it has; what has a helper is
\* not inlined, and the helper is extracted once.
MCRest(op, t) ==
    CASE op.op = "add_derive_to_struct" -> t.rest \cup {"derive"}
      [] op.op = "extract_function" -> t.rest \cup {"helper"}
      [] OTHER -> t.rest
MCPlanner(op, t) ==
    LET refused == op.op \in {"inline_function", "extract_function"} /\ "helper" \in t.rest
    IN  [errors |-> refused, scope |-> IF refused THEN "none" ELSE "all"]

\* An accepted plan beside one that hallucinates after a first, sound
\* operation; a garbled text.
MCModelAnswers ==
    {Answer(<<<<Op("f", "h")>>, <<Op("f", "h"), InlineOp("ghost")>>, <<>>>>), Garbled}

L(cmd, plan, apply, commit, mem) ==
    [cmd |-> cmd, plan |-> plan, apply |-> apply, commit |-> commit, mem |-> mem]
Writing == {L("rename", <<Op("f", "g")>>, TRUE, 0, 0)}
Lines == Writing \cup
    {L("rollback", <<>>, FALSE, 1, 0), L("history", <<>>, FALSE, 0, 1), L("show", <<>>, FALSE, 1, 0),
     L("propose", <<>>, FALSE, 0, 0), L("propose_patch", <<>>, FALSE, 0, 1)}
Rewriting ==
    {L("extract_function", <<ExtractOp("h"), Op("h", "k")>>, TRUE, 0, 0),
     L("inline_function", <<InlineOp("k")>>, TRUE, 0, 0),
     L("add_derive", <<DeriveOp("T")>>, TRUE, 0, 0), L("rename", <<TypedOp("t")>>, TRUE, 0, 0),
     L("rename", <<Op("f", "g")>>, FALSE, 0, 0),
     L("rollback", <<>>, FALSE, 1, 0)}

\* The extension on its own, beside a command line that writes, and command
\* lines on their own, the last beside others that rewrite the same text.
Budget(requests, early, lines, first, second, commits, seconds) ==
    [requests |-> requests, early |-> early, lines |-> lines,
     runs |-> (s1 :> first) @@ (s2 :> second), commits |-> commits, seconds |-> seconds]
MCBudgets ==
    {Budget(8, 0, {}, 0, 0, 2, 0), Budget(6, 1, {}, 0, 0, 1, 0), Budget(6, 0, Writing, 1, 0, 2, 0), Budget(0, 0, Lines, 2, 1, 2, 1),
     Budget(0, 0, Rewriting, 1, 1, 2, 0)}
=============================================================================
