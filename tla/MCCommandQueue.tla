--------------------------- MODULE MCCommandQueue ---------------------------
(***************************************************************************)
(* CommandQueue with one message of each sort: plain commands, macros of   *)
(* two and more steps, a combination, lockon queued and lockon in a        *)
(* message that is refused.                                                *)
(***************************************************************************)
EXTENDS CommandQueue

Viewer(commands) == [username |-> "viewer", commands |-> commands]

SomeMessages ==
    { Viewer(<<<<"l">>, <<"home">>>>), Viewer(<<<<"long_jump">>, <<"l">>>>),
      Viewer(<<<<"dive">>>>), Viewer(<<<<"cap_bounce">>>>), Viewer(<<<<"spin">>>>),
      Viewer(<<<<"left", "a">>>>), Viewer(<<<<"lockon">>>>),
      Viewer(<<<<"lockon">>, <<"a">>, <<"up">>>>),
      [username |-> "mod", commands |-> <<<<"home">>>>] }

Mods == {"mod"}

=============================================================================
