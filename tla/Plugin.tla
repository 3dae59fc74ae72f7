---- MODULE Plugin ----
(***************************************************************************)
(* The filters of the plugin, and what the rest of it is built from and    *)
(* the filters do not reach: sounds, the choice of a runtime and the       *)
(* update check are libraries with a caller of their own, and the lines to *)
(* the script are written and read inside one step of ProcessRunner.  They *)
(* share nothing, so a behaviour is one of the filters or of one of these, *)
(* from one state of the disk.                                             *)
(***************************************************************************)
EXTENDS FilterHost, Sounds, RuntimeChoice, Updates, BridgeLines

libraryVars == <<soundVars, choice, updateVars, exchange>>
pluginVars == <<vars, libraryVars>>

NoFilters ==
    /\ \A f \in Filters : phase[f] = "none"
    /\ cache = {}
    /\ \A n \in Sequences : files[n] = "absent"

SoundsAtRest == assets = [k \in AssetKinds |-> NoAsset] /\ sound.op = "none"
ChoiceAtRest == ~choice.made
UpdatesAtRest == menu = Closed /\ update.op = "none"
LinesAtRest == exchange.op = "none"

PluginInit == Init /\ SoundInit /\ ChoiceInit /\ UpdateInit /\ LineInit

FilterStep ==
    /\ SoundsAtRest /\ ChoiceAtRest /\ UpdatesAtRest /\ LinesAtRest
    /\ Next
    /\ UNCHANGED libraryVars

SoundStep ==
    /\ NoFilters /\ ChoiceAtRest /\ UpdatesAtRest /\ LinesAtRest
    /\ SoundNext
    /\ UNCHANGED <<vars, choice, updateVars, exchange>>

ChoiceStep ==
    /\ NoFilters /\ SoundsAtRest /\ UpdatesAtRest /\ LinesAtRest
    /\ ChoiceNext
    /\ UNCHANGED <<vars, soundVars, updateVars, exchange>>

UpdateStep ==
    /\ NoFilters /\ SoundsAtRest /\ ChoiceAtRest /\ LinesAtRest
    /\ UpdateNext
    /\ UNCHANGED <<vars, soundVars, choice, exchange>>

LineStep ==
    /\ NoFilters /\ SoundsAtRest /\ ChoiceAtRest /\ UpdatesAtRest
    /\ LineNext
    /\ UNCHANGED <<vars, soundVars, choice, updateVars>>

PluginNext == FilterStep \/ SoundStep \/ ChoiceStep \/ UpdateStep \/ LineStep

PluginSpec == PluginInit /\ [][PluginNext]_pluginVars /\ Fairness

====
