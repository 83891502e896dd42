---------------------------- MODULE MCCatalogue ----------------------------
(***************************************************************************)
(* Two parts administrators configure, for TLC.  They share no state       *)
(* and no lock, so a behaviour of this module is a behaviour of one of     *)
(* them; the other keeps its initial state.                                *)
(***************************************************************************)
EXTENDS Settings, Catalogue

CONSTANTS p1, p2, s1, s2, q1

VARIABLE part

MCPodOf == [s \in Savers |-> p1]
MCServedBy == [r \in Requests |-> p2]

configVars == <<settingsVars, adminVars, part>>

ConfigInit ==
    /\ SettingsInit /\ CatalogueInit
    /\ part \in {"settings", "catalogue"}
    \* One initial state of the parts that stand still.
    /\ part # "catalogue" => kind = "agent" /\ rows = [i \in Ids |-> Absent]

ConfigNext ==
    /\ \/ part = "settings" /\ SettingsNext /\ UNCHANGED adminVars
       \/ part = "catalogue" /\ CatalogueNext /\ UNCHANGED settingsVars
    /\ UNCHANGED part

ConfigSpec ==
    /\ ConfigInit /\ [][ConfigNext]_configVars
    /\ part = "settings" => SettingsFairness
    /\ part = "catalogue" => CatalogueFairness

-----------------------------------------------------------------------------
\* Every variable has a value of its type, in either part.
ConfigTypeOK == SettingsTypeOK /\ CatalogueTypeOK

\* Once nothing is changed any more every pod serves what is stored, its
\* settings as well as its registries, although reloads fail, overlap, read
\* torn or truncated lists, and pods restart.
PodsConverge == SettingsConverge /\ RegistriesConverge

\* A copy of the rows shows older ones only when reloads overlap, and the
\* rows themselves in the end.
CopiesFollow == OldOnlyByOverlap /\ PodsConverge
=============================================================================
