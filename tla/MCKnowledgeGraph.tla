-------------------------- MODULE MCKnowledgeGraph --------------------------
(* TLC instances of KnowledgeGraph: two functions a and b, both named n. *)
EXTENDS KnowledgeGraph

At(p, args) == [pred |-> p, args |-> args]
Told(p, args, layer) == [pred |-> p, args |-> args, layer |-> layer]

MCSources ==
  {{At("function", <<"a", "n">>), At("function", <<"b", "n">>), At("calls", <<"a", "b">>)}}

\* A client may take the arity of `pure` first, or write at another layer.
MCIngests ==
  {{Told("calls", <<"b", "a">>, "observed"), Told("pure", <<"a", "b">>, "observed")},
   {Told("calls", <<"a", "b">>, "inferred")}}

Reaches == {[head |-> At("reaches", <<"X", "Y">>), body |-> {At("calls", <<"X", "Y">>)}],
            [head |-> At("reaches", <<"X", "Z">>),
             body |-> {At("calls", <<"X", "Y">>), At("reaches", <<"Y", "Z">>)}]}

Trusting == {[head |-> At("calls", <<"X", "X">>), body |-> {At("pure", <<"X">>)}]}

\* Parsed and loaded, although the head's variable is bound by nothing.
Unbound == {[head |-> At("pure", <<"X">>), body |-> {At("reaches", <<"Y", "Y">>)}]}

MCPacks ==
  {[facts |-> {}, rules |-> Reaches],
   [facts |-> {At("pure", <<"b">>)}, rules |-> Trusting],
   [facts |-> {At("calls", <<"b", "a">>)}, rules |-> Unbound]}

MCAnswers ==
  {{At("pure", <<"a">>)},
   {At("pure", <<"n">>), At("function", <<"b", "a">>)}}

\* The client's last llm.propose was refused this, which the LLM may propose again.
MCPriors == {<<At("pure", <<"n">>)>>}
=============================================================================
