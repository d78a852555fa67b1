------------------------------ MODULE Process ------------------------------
(***************************************************************************)
(* The process from end to end: its settings, from the layers they come in *)
(* to the service that is constructed with them (Config); its run, in      *)
(* every mode the settings can ask for (App); and the MySQL service it     *)
(* runs (Services).  Each behaviour follows one of the three parts; the    *)
(* others keep their initial state.                                        *)
(***************************************************************************)
EXTENDS App, Services

CONSTANT Settings

VARIABLES part, loading, cfg, layers, around, secrets, built
settings == <<loading, cfg, layers, around, secrets, built>>

C == INSTANCE Config WITH pc <- loading, service <- built

ASSUME SettingsAssumption == \A s \in Settings : C!WellTyped(s.layers)

Nothing == [f \in {} |-> 0]
\* The layers of a process that is given no settings.
NoSettings ==
    [layers |-> [file |-> [status |-> "read", sets |-> Nothing], env |-> [status |-> "parses", sets |-> Nothing],
                 flags |-> Nothing, managed |-> [status |-> "missing", sets |-> Nothing]],
     around |-> [admin |-> "unset", client |-> "unset", upstream |-> "unset", roots |-> "good", certificate |-> "good",
                 probe |-> "answers"]]

ProcessInit ==
    /\ part \in {"settings", "run", "service"}
    /\ IF part = "settings" THEN C!Init ELSE C!InitFrom({NoSettings})
    /\ IF part = "run" THEN Init ELSE Init /\ mode = CHOOSE m \in Modes : TRUE
    /\ IF part = "service" THEN ServicesInit ELSE mysqlMode = "pooled" /\ ServicesInit
Loaded == loading \in {"exit", "ready"} /\ UNCHANGED settings
ProcessNext ==
    \/ part = "settings" /\ (C!Next \/ Loaded) /\ UNCHANGED <<part, vars, servicesVars>>
    \/ part = "run" /\ Next /\ UNCHANGED <<part, settings, servicesVars>>
    \/ part = "service" /\ ServicesNext /\ UNCHANGED <<part, vars, settings>>
ProcessSpec ==
    /\ ProcessInit /\ [][ProcessNext]_<<part, vars, settings, servicesVars>>
    /\ WF_vars(part = "run" /\ RunStep) /\ ServicesFairness

-----------------------------------------------------------------------------
(* Types of the variables of the run and of the services.                  *)
ProcessTypes == TypeOK /\ ListenerTypes /\ RelayTypes
\* The settings in force come from the last layer that sets them (Load), and a
\* service that starts has usable limits (Validate), TLS or the operator's consent
\* beyond the loopback, and the secrets it checks clients with (ResolveSecrets).
SettingsSound == C!SettingsSound
=============================================================================
