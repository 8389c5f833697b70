--------------------------- MODULE MCAlertPipeline ---------------------------
(* Small instances of AlertPipeline: one asset with two metrics, or two      *)
(* assets with one each.                                                     *)
EXTENDS AlertPipeline

CONSTANTS x, y, m, n

OneAsset == {<<x, m>>, <<x, n>>}
TwoAssets == {<<x, m>>, <<y, m>>}
==============================================================================
