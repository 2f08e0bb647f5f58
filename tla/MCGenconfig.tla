---------------------------- MODULE MCGenconfig ----------------------------
(***************************************************************************)
(* Three notations, two of which close with the same character, and        *)
(* variables with an empty, a short and a long value and none.  Lines have *)
(* up to three elements, so that they can have three references, share a   *)
(* closing character, fill the buffer or be cut by it.                     *)
(***************************************************************************)
EXTENDS Genconfig, SequencesExt

MCOpen == ("@" :> <<"@">>) @@ ("$" :> <<"$", "{">>) @@ ("ENV" :> <<"$", "E", "{">>)
MCClose == ("@" :> "@") @@ ("$" :> "}") @@ ("ENV" :> "}")
MCArgs == (<<"0">> :> << >>) @@ (<<"S">> :> <<"s", "s">>) @@
          (<<"L">> :> [i \in 1 .. 5 |-> "l"])

Ref(p, v) == MCOpen[p] \o <<v>> \o <<MCClose[p]>>
Space == <<"blank">>
Elements == {<<"}">>, Space, Ref("$", "S"), Ref("$", "0"), Ref("@", "N"),
             Ref("@", "L"), Ref("@", "0"), Ref("ENV", "S")}
Keywords == {<<"#", d>> \o Space : d \in {"cmakedefine", "cmakedefine01"}}

MCLines ==
  {FlattenSeq(q) \o <<NL>> : q \in SeqOf(Elements, 2)} \cup
  {FlattenSeq(<<e, f, g>>) \o <<NL>> : e, g \in Elements, f \in {Space, Ref("@", "0")}} \cup
  {d \o v \o FlattenSeq(q) \o <<NL>> :
     d \in Keywords, v \in {<<"0">>, <<"N">>}, q \in SeqOf({Space, Ref("$", "S")}, 2)} \cup
  {FlattenSeq(<<Ref("$", "S"), Space, Ref("$", "S"), Space, g>>) \o <<NL>> :
     g \in {Ref("$", "S"), Ref("@", "L")}}
=============================================================================
