--------------------------- MODULE MCModuleInput ---------------------------
(* ModuleInput for TLC: the key alone, and with the neighbours, before and *)
(* after it, that can take its flag or have it taken.                      *)
EXTENDS ModuleInput

Key == <<"x">>
NoKey == <<"no", "_", "x">>
P(name, boolean) == [name |-> name, boolean |-> boolean]
Layout(before, name, after) == [before |-> before, name |-> name, after |-> after]

TheLayouts ==
  { Layout(<<>>, Key, <<>>),
    Layout(<<P(NoKey, FALSE)>>, Key, <<>>),
    Layout(<<>>, Key, <<P(NoKey, FALSE)>>),
    Layout(<<>>, NoKey, <<P(Key, TRUE)>>),
    Layout(<<>>, NoKey, <<P(Key, FALSE)>>),
    Layout(<<P(<<"a", "-", "b">>, FALSE)>>, <<"a", "_", "b">>, <<>>),
    Layout(<<>>, <<"no", "-", "x">>, <<>>),
    Layout(<<>>, <<"large", "_", "input">>, <<>>),
    Layout(<<>>, LargeInput, <<>>),
    Layout(<<>>, ModuleId, <<>>),
    Layout(<<>>, TokenKey, <<>>) }

JustTheKey == {Layout(<<>>, Key, <<>>)}
=============================================================================
