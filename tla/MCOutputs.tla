------------------------------- MODULE MCOutputs -------------------------------
(* One command whose second variant has the first one's name with the metadata *)
(* suffix.  x.meta is the metadata path of x.                                 *)
EXTENDS Outputs, TLC

CONSTANTS b1, x, xmeta, xmetameta

MCPaths == {x, xmeta, xmetameta}
MCMetadataPath == (x :> xmeta) @@ (xmeta :> xmetameta)

Clashing == {<<x, xmeta>>}
===============================================================================
