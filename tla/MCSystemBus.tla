----------------------------- MODULE MCSystemBus ------------------------------
(***************************************************************************)
(* One simulator, and one program with a device of its own, on the same    *)
(* persistence file; configurations of up to two programs.                 *)
(***************************************************************************)
EXTENDS SystemBusProperties

CONSTANTS prime, alpha   \* programs

\* No lines, and a character behind an empty line.
MCContents == {<<>>, <<<<>>, <<"a">>>>}

Configuration(text, paths, table) ==
  [text |-> text, processes |-> paths, devices |-> table]

MCConfigurations ==
  {Configuration(text, <<>>, "none") : text \in {"unusable", "mistyped"}}
  \cup {Configuration("good", <<prime, alpha>>, "named"),
        Configuration("good", <<prime>>, "unnamed")}
=============================================================================
