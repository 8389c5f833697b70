--------------------------- MODULE MCAssetCatalog ---------------------------
(* A user who may get into one organization and not into the other, three   *)
(* requests and a pool of one connection.                                   *)
EXTENDS AssetCatalog

MCPayloads == {<<>>, <<"temp", "temp">>}
=============================================================================
