---------------------------- MODULE MCFederation ----------------------------
(***************************************************************************)
(* Instances of FederationManagement for TLC.                                *)
(***************************************************************************)
EXTENDS FederationRefinement

\* Nobody asks for anything but a number of labels, saves and restorations.
Calls(labels, saves, restorations) ==
    [s \in Service |-> CASE s = "register" -> labels
                         [] s = "save"     -> saves
                         [] s = "restore"  -> restorations
                         [] OTHER          -> 0]

LabelSaveRestorations == Calls(1, 1, 2)

TwoSaves == Calls(0, 2, 0)

EveryService == [s \in Service |-> 1]
=============================================================================
