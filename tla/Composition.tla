---------------------------- MODULE Composition -----------------------------
(***************************************************************************)
(* The composition of an application, a platform and a carrier             *)
(* (Tools/validate-composition.py, Tools/capability_catalog.py), the       *)
(* configure step that runs it twice (Platforms/esp32c6-idf/main and the   *)
(* zenoh_pico component), and the check of the capability tables when the  *)
(* image starts (Interop/axoloty_{platform,carrier}_v1.h,                  *)
(* Sources/EmbeddedCapabilities).                                          *)
(*                                                                         *)
(* Masks are sets of bits.  A table is the set of its non-NULL fields, its *)
(* capability bits and the number of fields its struct_size covers.  The   *)
(* schema, key and name checks of one manifest are one Boolean.            *)
(***************************************************************************)
EXTENDS Naturals, Sequences, SequencesExt, FiniteSets

CONSTANTS
  Trees,          \* the working trees an edit can leave behind
  Tables,         \* the table pairs an image can be linked with
  MaxConfigures   \* bound: configure steps started

VARIABLES
  tree,           \* manifests, lock and sources on disk
  outputs,        \* the generated files: requirements, swift, header, cmake
  configure,      \* the configure step: phase, the tool's values, what is left
  image           \* the built image: its generated inputs and tables, or none

compositionVars == <<tree, outputs, configure, image>>

(* The catalog in its written order: name, ABI bit, function fields. *)
Catalog ==
  [platform |->
     << <<"clock", "CLOCK", <<"clock_now_microseconds">>>>,
        <<"delayTicks", "DELAY", <<"delay_ticks">>>>,
        <<"restart", "RESTART", <<"restart">>>>,
        <<"console", "LOG", <<"write_log">>>>,
        <<"heap", "DIAGNOSTICS", <<"heap_trace_begin", "heap_trace_end">>>>,
        <<"stack", "DIAGNOSTICS", <<"read_metrics">>>>,
        <<"configuration", "NETWORK_CONFIG",
          <<"network_configured", "network_role", "network_scenario">>>>,
        <<"bootstrap", "NETWORK_BOOTSTRAP", <<"network_prepare", "network_cleanup">>>>,
        <<"networkReconnect", "NETWORK_RECONNECT", <<"network_reconnect">>>>,
        <<"displayName", "DEVICE_NAME", <<"device_display_name">>>> >>,
   carrier |->
     << <<"lastWill", "LAST_WILL", <<"supports_last_will", "configure_last_will">>>>,
        <<"connect", "CONNECT", <<"connect">>>>,
        <<"subscribe", "SUBSCRIBE", <<"subscribe">>>>,
        <<"unsubscribe", "UNSUBSCRIBE", <<"unsubscribe">>>>,
        <<"publish", "PUBLISH", <<"publish">>>>,
        <<"poll", "POLL", <<"poll_one_event">>>>,
        <<"reconnect", "RECONNECT", <<"wait_for_reconnect">>>>,
        <<"disconnect", "DISCONNECT", <<"disconnect">>>>,
        <<"networkProbe", "NETWORK_PROBE", <<"copy_probe_topic", "copy_probe_payload">>>> >>]

Sides == DOMAIN Catalog
CatalogNames(side) == {c[1] : c \in ToSet(Catalog[side])}
CatalogRows(side, names) == {c \in ToSet(Catalog[side]) : c[1] \in names}

(* The position of every field in the struct, which struct_size measures. *)
StructFields ==
  [platform |-> <<"clock_now_microseconds", "delay_ticks", "restart", "write_log",
                  "read_metrics", "heap_trace_begin", "heap_trace_end",
                  "network_configured", "network_role", "network_scenario",
                  "network_prepare", "network_reconnect", "network_cleanup",
                  "device_display_name">>,
   carrier |-> <<"supports_last_will", "configure_last_will", "connect", "subscribe",
                 "unsubscribe", "publish", "poll_one_event", "wait_for_reconnect",
                 "wait_for_loopback", "disconnect", "copy_probe_topic", "copy_probe_payload">>]

(* The mask index the header and the Swift wrappers write beside each field. *)
CheckedFields ==
  [platform |-> <<"clock_now_microseconds", "delay_ticks", "restart", "write_log",
                  "heap_trace_begin", "heap_trace_end", "read_metrics",
                  "network_configured", "network_role", "network_scenario",
                  "network_prepare", "network_cleanup", "network_reconnect",
                  "device_display_name">>,
   carrier |-> <<"supports_last_will", "configure_last_will", "connect", "subscribe",
                 "unsubscribe", "publish", "poll_one_event", "wait_for_reconnect",
                 "disconnect", "copy_probe_topic", "copy_probe_payload">>]

-----------------------------------------------------------------------------
(* ordered_function_fields, field_mask, abi_mask *)

\* Mutant: the mask follows the order of the struct.
OrderedFields_Struct(side) == StructFields[side]
OrderedFields(side) == FlattenSeq([i \in DOMAIN Catalog[side] |-> Catalog[side][i][3]])

FieldMask(side, names) ==
  LET required == UNION {ToSet(c[3]) : c \in CatalogRows(side, names)}
  IN {i \in DOMAIN OrderedFields(side) : OrderedFields(side)[i] \in required}

AbiMask(side, names) == {c[2] : c \in CatalogRows(side, names)}

(* transport_limits and check_capacities: no declared bound above a ceiling. *)
WithinLimits(capacities, limits) == \A name \in DOMAIN limits : capacities[name] <= limits[name]

(* Capabilities are listed once each, and only catalog names. *)
KnownOnce(side, names) == ToSet(names) \subseteq CatalogNames(side) /\ IsInjective(names)

(* check_requirements *)
Provided(required, available) == ToSet(required) \subseteq ToSet(available)

(* validate: the selection is complete, the Core revision is the locked one,
   the capabilities exist and suffice, the ceilings hold, and the listed
   sources are exactly the application's Swift files. *)
ValidSelection(t) ==
  /\ t.wellFormed
  /\ t.revision = t.locked
  /\ \A side \in Sides :
       /\ KnownOnce(side, t.required[side])
       /\ KnownOnce(side, t.available[side])
       /\ Provided(t.required[side], t.available[side])
  /\ WithinLimits(t.capacities, t.limits)
  /\ t.listed # {} /\ t.listed = t.onDisk

-----------------------------------------------------------------------------
NoOutput == [from |-> "none"]
OutputFiles == [main |-> <<"requirements", "swift", "header">>, zenoh |-> <<"cmake">>]
Quiet == [phase |-> "idle", tool |-> "none", values |-> NoOutput, left |-> <<>>,
          pending |-> {}, edited |-> FALSE, runs |-> 0]

CompositionInit ==
  /\ tree \in Trees
  /\ outputs = [f \in {"requirements", "swift", "header", "cmake"} |-> NoOutput]
  /\ configure = Quiet
  /\ image = [status |-> "none"]

(* A developer saves a manifest, at any moment. *)
EditTree ==
  /\ configure.phase \in {"components", "writing"}
  /\ ~configure.edited
  /\ tree' \in Trees \ {tree}
  /\ configure' = [configure EXCEPT !.edited = TRUE]
  /\ UNCHANGED <<outputs, image>>

(* CMake configures, after any edits; each of the two components runs the tool
   once.  An earlier image is superseded. *)
StartConfigure ==
  /\ configure.phase \in {"idle", "failed", "configured"}
  /\ configure.runs < MaxConfigures
  /\ configure' = [Quiet EXCEPT !.phase = "components", !.pending = DOMAIN OutputFiles,
                                !.runs = configure.runs + 1]
  /\ tree' \in Trees
  /\ image' = [status |-> "none"]
  /\ UNCHANGED outputs

ConfigureFails ==
  /\ configure' = [configure EXCEPT !.phase = "failed", !.values = NoOutput]
  /\ UNCHANGED <<tree, outputs, image>>

(* load_composition with --profile: every file is read and checked once. *)
LoadComposition(tool) ==
  /\ configure.phase = "components" /\ tool \in configure.pending
  /\ ValidSelection(tree)
  /\ configure' = [configure EXCEPT
       !.phase = "writing", !.tool = tool, !.left = OutputFiles[tool],
       !.pending = @ \ {tool},
       !.values = [from |-> "tool",
                   names |-> [side \in Sides |-> ToSet(tree.required[side])],
                   bits |-> [side \in Sides |-> AbiMask(side, ToSet(tree.required[side]))],
                   fields |-> [side \in Sides |-> FieldMask(side, ToSet(tree.required[side]))],
                   capacities |-> tree.capacities]]
  /\ UNCHANGED <<tree, outputs, image>>

RejectComposition(tool) ==
  /\ configure.phase = "components" /\ tool \in configure.pending
  /\ ~ValidSelection(tree)
  /\ ConfigureFails

(* swift_requirements writes the masks and the bounds, the other three files
   hold the bounds alone. *)
Rendered(file) ==
  IF file = "requirements" THEN configure.values
  ELSE [from |-> "tool", capacities |-> configure.values.capacities]

\* Mutant: a file that exists is left alone.
WriteOutput_Once ==
  /\ configure.phase = "writing" /\ configure.left # <<>>
  /\ LET file == Head(configure.left)
     IN outputs' = [outputs EXCEPT ![file] = IF @.from = "none" THEN Rendered(file) ELSE @]
  /\ configure' = [configure EXCEPT !.left = Tail(@)]
  /\ UNCHANGED <<tree, image>>

(* write_if_changed: a file that already holds the text is left alone, which
   leaves the same contents behind. *)
WriteOutput ==
  /\ configure.phase = "writing" /\ configure.left # <<>>
  /\ LET file == Head(configure.left)
     IN outputs' = [outputs EXCEPT ![file] = Rendered(file)]
  /\ configure' = [configure EXCEPT !.left = Tail(@)]
  /\ UNCHANGED <<tree, image>>

(* The tool or CMake is stopped between two files. *)
KillConfigure == configure.phase \in {"components", "writing"} /\ ConfigureFails

ToolReturns ==
  /\ configure.phase = "writing" /\ configure.left = <<>>
  /\ configure' = [configure EXCEPT
       !.phase = IF configure.pending = {} THEN "configured" ELSE "components",
       !.values = NoOutput]
  /\ UNCHANGED <<tree, outputs, image>>

(* The image is compiled from the generated files of a finished configure and
   linked with the platform's and the carrier's tables. *)
BuildImage(tables) ==
  /\ configure.phase = "configured"
  /\ image.status = "none"
  /\ image' = [status |-> "built", inputs |-> outputs, tables |-> tables,
               limits |-> tree.limits, edited |-> configure.edited]
  /\ UNCHANGED <<tree, outputs, configure>>

(* axoloty_*_v1_validate_requirements: the bits, then every masked field. *)
FieldPresent(side, table, field) ==
  /\ \E i \in 1 .. table.size : StructFields[side][i] = field
  /\ field \in table.present

TableAccepted(side, table, requirements) ==
  /\ requirements.bits[side] \subseteq table.bits
  /\ \A i \in requirements.fields[side] \cap DOMAIN CheckedFields[side] :
       FieldPresent(side, table, CheckedFields[side][i])

(* EmbeddedCapabilities.init: nil unless both tables are accepted. *)
BootImage ==
  /\ image.status = "built"
  /\ image' = [image EXCEPT !.status =
       IF \A side \in Sides : TableAccepted(side, image.tables[side], image.inputs.requirements)
         THEN "running" ELSE "refused"]
  /\ UNCHANGED <<tree, outputs, configure>>

CompositionNext ==
  \/ EditTree \/ StartConfigure \/ KillConfigure \/ WriteOutput \/ ToolReturns \/ BootImage
  \/ \E tool \in DOMAIN OutputFiles : LoadComposition(tool) \/ RejectComposition(tool)
  \/ \E tables \in Tables : BuildImage(tables)

CompositionSpec == CompositionInit /\ [][CompositionNext]_compositionVars

-----------------------------------------------------------------------------
(* The field calls a Swift wrapper allows: its index is in the mask. *)
Callable(side, requirements) ==
  {CheckedFields[side][i] : i \in requirements.fields[side] \cap DOMAIN CheckedFields[side]}

(* A running image can call exactly the fields of the capabilities its
   manifest declares, and the tables it runs on cover and fill each of them:
   the catalog order, the header's indices and the wrappers' indices agree
   although the structs are laid out in another order. *)
DeclaredCallsSafe ==
  image.status = "running" =>
    \A side \in Sides :
      LET requirements == image.inputs.requirements
          declared == UNION {ToSet(c[3]) : c \in CatalogRows(side, requirements.names[side])}
      IN /\ Callable(side, requirements) = declared
         /\ \A field \in declared : FieldPresent(side, image.tables[side], field)

(* The carrier's Swift and C storage, the application's requirements and the
   library's fragment buffer are composed from the same bounds, none above
   the transport's ceiling, whatever configure steps failed or were stopped
   before; a manifest saved while CMake ran is the exception. *)
ImageBoundsAgree ==
  image.status # "none" /\ ~image.edited =>
    \A f \in DOMAIN image.inputs :
      /\ image.inputs[f].from = "tool"
      /\ image.inputs[f].capacities = image.inputs.requirements.capacities
      /\ WithinLimits(image.inputs[f].capacities, image.limits)
=============================================================================
