---------------------------- MODULE MCHidppQuery ----------------------------
(***************************************************************************)
(* HidppQuery on a wheel of three features and two firmware entities, on   *)
(* each layout of interfaces the wheels have.                              *)
(***************************************************************************)
EXTENDS HidppQuery

FeatureTable  == <<3, 1, 122>>
EntityTable   == <<1, 0>>
ReportLayouts == {{1}, {16, 17}, {17, 18}}
=============================================================================
