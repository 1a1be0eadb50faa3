------------------------------- MODULE Options -------------------------------
(***************************************************************************)
(* What a run is asked to do, checked four times on its way: by the        *)
(* command line of the sidecar, by the injector's own command line, by     *)
(* inject_and_bootstrap, and by the bridge inside the game.  The game is   *)
(* started after the first check and before the other three, so whatever   *)
(* the first lets through the others must accept.                          *)
(***************************************************************************)
EXTENDS Naturals

\* The switches of `ht2mp-client run` that matter here.
Switch == {"gog-telemetry", "steam-telemetry", "gog-diagnostics",
           "gog-actors", "steam-actors", "auto-enter", "online",
           "server", "vehicle", "paint"}

Edition == {"gog", "steam"}

\* The vehicles of the catalogue span selectors 62 to 87.
Vehicle == {62, 87}
Paint == {0, 3}
NoVehicle == 65535

Command == [edition: Edition, on: SUBSET Switch, vehicle: Vehicle, paint: Paint]

\* The switches that imply others (run_command's first loop).
WantsTelemetry(c) == c.on \cap {"gog-telemetry", "steam-telemetry", "gog-actors",
                                "steam-actors", "auto-enter", "online"} # {}
WantsActors(c) == c.on \cap {"gog-actors", "steam-actors", "online"} # {}

\* run_command without its refusal of diagnostics beside actors.
CommandAcceptsBoth(c) ==
    /\ "online" \in c.on => "server" \in c.on /\ c.edition = "steam"
    /\ "paint" \in c.on => "vehicle" \in c.on
    /\ "gog-diagnostics" \in c.on => WantsTelemetry(c) /\ c.edition = "gog"
    /\ WantsActors(c) => "server" \in c.on
    /\ "vehicle" \in c.on => c.edition = "steam"

\* run_command's checks, in its order.
CommandAccepts(c) ==
    /\ "online" \in c.on => "server" \in c.on /\ c.edition = "steam"
    /\ "paint" \in c.on => "vehicle" \in c.on
    /\ c.on \cap {"gog-telemetry", "gog-diagnostics", "gog-actors"} # {}
          => c.edition = "gog"
    /\ c.on \cap {"steam-telemetry", "steam-actors", "online"} # {}
          => c.edition = "steam"
    /\ "gog-diagnostics" \in c.on => WantsTelemetry(c) /\ ~WantsActors(c)
    /\ WantsActors(c) => "server" \in c.on
    \* protocol::validate of the probe: only Steam knows the catalogue.
    /\ "vehicle" \in c.on => c.edition = "steam"

RunOption == [edition: Edition, telemetry: BOOLEAN, diagnostics: BOOLEAN,
              actors: BOOLEAN, online: BOOLEAN, autoEnter: BOOLEAN,
              vehicle: Vehicle \cup {NoVehicle}, paint: {0} \cup Paint]

\* A vehicle that defaults to zero instead of "none asked for".
RunOptionsUnset(c) ==
    [edition     |-> c.edition,
     telemetry   |-> WantsTelemetry(c),
     diagnostics |-> "gog-diagnostics" \in c.on,
     actors      |-> WantsActors(c),
     online      |-> "online" \in c.on,
     autoEnter   |-> "auto-enter" \in c.on,
     vehicle     |-> IF "vehicle" \in c.on THEN c.vehicle ELSE 0,
     paint       |-> IF "paint" \in c.on THEN c.paint ELSE 0]

RunOptions(c) ==
    [edition     |-> c.edition,
     telemetry   |-> WantsTelemetry(c),
     diagnostics |-> "gog-diagnostics" \in c.on,
     actors      |-> WantsActors(c),
     online      |-> "online" \in c.on,
     autoEnter   |-> "auto-enter" \in c.on,
     vehicle     |-> IF "vehicle" \in c.on THEN c.vehicle ELSE NoVehicle,
     paint       |-> IF "paint" \in c.on THEN c.paint ELSE 0]

AcceptedOptions == {RunOptions(c) : c \in {d \in Command : CommandAccepts(d)}}

\* What the launcher asks for (make_sidecar_command).
LauncherCommand(v, p) ==
    [edition |-> "steam", vehicle |-> v, paint |-> p,
     on |-> {"online", "server", "vehicle", "paint", "auto-enter"}]

\* run_injector passes a vehicle and its paint together or neither.
Appearance(o) == o.vehicle # NoVehicle
Passed(o) == IF Appearance(o) THEN o ELSE [o EXCEPT !.paint = 0]

\* The injector's command line (apps/injector32/main.cpp).
InjectorParses(o) ==
    /\ Appearance(o) => o.vehicle \in 62..87 /\ o.paint \in 0..3
    /\ o.diagnostics => o.telemetry
    /\ o.actors => o.telemetry
    /\ ~(o.actors /\ o.diagnostics)
    /\ o.autoEnter => o.telemetry
    /\ o.online => o.edition = "steam"

\* inject_and_bootstrap's own checks of the request.
InjectorAccepts(o) ==
    /\ o.diagnostics => o.telemetry /\ o.edition = "gog"
    /\ o.autoEnter => o.telemetry
    /\ o.online => o.edition = "steam" /\ o.telemetry /\ o.actors
    /\ Appearance(o) => o.edition = "steam" /\ o.vehicle \in 62..87
                                            /\ o.paint \in 0..3
    /\ ~Appearance(o) => o.paint = 0

\* The flags of the BootstrapV1 block it writes; observer_only is the default.
BootstrapFlags(o) ==
    {"observer-only"}
      \cup (IF o.telemetry THEN {"telemetry"} ELSE {})
      \cup (IF o.diagnostics THEN {"diagnostics"} ELSE {})
      \cup (IF o.actors THEN {"actors"} ELSE {})
      \cup (IF o.online THEN {"npc-suppression", "background-tick"} ELSE {})
      \cup (IF Appearance(o) THEN {"appearance"} ELSE {})
      \cup (IF o.autoEnter THEN {"auto-enter"} ELSE {})

\* ValidateBootstrapRequestFields.
BootstrapAccepts(o) ==
    LET flags == BootstrapFlags(o)
        world == flags \cap {"npc-suppression", "background-tick"}
    IN  /\ "observer-only" \in flags
        /\ flags \cap {"diagnostics", "auto-enter", "actors"} # {}
              => "telemetry" \in flags
        /\ ~({"actors", "diagnostics"} \subseteq flags)
        /\ world \in {{}, {"npc-suppression", "background-tick"}}
        /\ world # {} => {"telemetry", "actors"} \subseteq flags
        /\ "appearance" \in flags => o.vehicle \in 62..87 /\ o.paint \in 0..3
        /\ "appearance" \notin flags => ~Appearance(o) /\ o.paint = 0
        /\ world # {} \/ "appearance" \in flags => o.edition = "steam"

Bootable(o) ==
    LET p == Passed(o)
    IN  InjectorParses(p) /\ InjectorAccepts(p) /\ BootstrapAccepts(p)
=============================================================================
