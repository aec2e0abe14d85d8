----------------------------- MODULE Proposals -----------------------------
(* What the patch proposer makes of a model's answer (propose_patch.rs).      *)
(*                                                                            *)
(* An operation arrives as JSON: here a record that has the fields the model  *)
(* chose to write.  A field of the wrong JSON type is one that is missing.    *)
(* An answer has a sequence of plans, and a plan is a sequence of operations; *)
(* a text that is not such JSON is Garbled.                                   *)
EXTENDS Naturals, Sequences, Functions, SequencesExt

Answer(plans) == [json |-> TRUE, plans |-> plans]
Garbled == [json |-> FALSE, plans |-> <<>>]

Has(op, fields) == fields \subseteq DOMAIN op
Filled(op, fields) == Has(op, fields) /\ \A f \in fields : op[f] # ""
Optional(op, field, P(_)) == field \in DOMAIN op => P(op[field])

-----------------------------------------------------------------------------
(* One guard per operation.  fns and types are the names the graph has facts  *)
(* about; what an operation names must be among them.                         *)
RenameGrounded(op, fns) ==
    Has(op, {"old_name"}) /\ Filled(op, {"new_name"}) /\ op.old_name \in fns

\* Resolved by position: the old name is only a hint.
TypedRenameGrounded(op, fns) ==
    /\ Has(op, {"decl_file", "decl_line", "decl_character"}) /\ Filled(op, {"new_name"})
    /\ Optional(op, "old_name", LAMBDA n : n \in fns \cup {""})

DeriveGrounded(op, types) ==
    /\ Has(op, {"type_name", "derives"})
    /\ op.derives # <<>> /\ "" \notin ToSet(op.derives)
    /\ op.type_name \in types

InlineGrounded(op, fns) == Filled(op, {"function"}) /\ op.function \in fns

\* Shape only: the file and the lines are for the planner to look at.
ExtractShaped(op) ==
    /\ Has(op, {"start_line", "end_line"}) /\ Filled(op, {"source_file", "new_name"})
    /\ 1 <= op.start_line /\ op.start_line <= op.end_line
    /\ Optional(op, "params", LAMBDA ps : \A i \in DOMAIN ps : Filled(ps[i], {"name", "type"}))

\* No position twice; whether it is a permutation is for the planner.
SignatureGrounded(op, fns) ==
    /\ Filled(op, {"function"}) /\ op.function \in fns
    /\ Has(op, {"new_params"}) /\ op.new_params # <<>>
    /\ \A i \in DOMAIN op.new_params :
         Has(op.new_params[i], {"from_index"}) /\ Optional(op.new_params[i], "rename", LAMBDA n : n # "")
    /\ IsInjective([i \in DOMAIN op.new_params |-> op.new_params[i].from_index])

MoveGrounded(op, fns, types) ==
    /\ Has(op, {"item_kind"}) /\ op.item_kind \in {"function", "struct", "enum", "union"}
    /\ Filled(op, {"item_name", "from_file", "to_file"})
    /\ op.item_name \in (IF op.item_kind = "function" THEN fns ELSE types)
    /\ op.from_file # op.to_file

OpGrounded(op, fns, types) ==
    /\ Has(op, {"op"})
    /\ \/ op.op = "rename_function" /\ RenameGrounded(op, fns)
       \/ op.op = "rename_function_typed" /\ TypedRenameGrounded(op, fns)
       \/ op.op \in {"add_derive_to_struct", "remove_derive_from_struct"} /\ DeriveGrounded(op, types)
       \/ op.op = "inline_function" /\ InlineGrounded(op, fns)
       \/ op.op = "extract_function" /\ ExtractShaped(op)
       \/ op.op = "change_signature" /\ SignatureGrounded(op, fns)
       \/ op.op = "move_item" /\ MoveGrounded(op, fns, types)

\* Every operation is looked at against the same graph, which the operations
\* before it do not change.
ValidatePlanFirstOp(plan, fns, types) == plan # <<>> /\ OpGrounded(plan[1], fns, types)
ValidatePlan(plan, fns, types) ==
    plan # <<>> /\ \A i \in DOMAIN plan : OpGrounded(plan[i], fns, types)

\* Each plan of the answer on its own, so that one hallucination does not
\* throw out the rest.
Candidates(answer, fns, types) ==
    [i \in DOMAIN answer.plans |->
        [plan |-> answer.plans[i], accepted |-> ValidatePlan(answer.plans[i], fns, types)]]
Accepted(candidates) == {c.plan : c \in {c \in ToSet(candidates) : c.accepted}}

-----------------------------------------------------------------------------
(* The identifier an operation is about, "" when it goes by position.         *)
Cites(op) ==
    CASE op.op = "rename_function" -> op.old_name
      [] op.op \in {"inline_function", "change_signature"} -> op.function
      [] op.op \in {"add_derive_to_struct", "remove_derive_from_struct"} -> op.type_name
      [] op.op = "move_item" -> op.item_name
      [] OTHER -> ""
=============================================================================
