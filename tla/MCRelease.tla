----------------------------- MODULE MCRelease ------------------------------
(***************************************************************************)
(* Linked images with their map files, a profile with its checks, and      *)
(* selections of application, platform and carrier.                        *)
(***************************************************************************)
EXTENDS StorageAudit, ReleaseManifest, Composition, TLC

-----------------------------------------------------------------------------
(* The post-link gate. *)

Row(section, address, size, owner) ==
  [section |-> section, address |-> address, size |-> size, owner |-> owner]
Section(name, address, size, class) ==
  [name |-> name, address |-> address, size |-> size, class |-> class, write |-> class # "text"]
Symbol(name, section, address, size) ==
  [name |-> name, section |-> section, address |-> address, size |-> size]

(* One layout; two rows of padding follow the object's row in .data. *)
PlacedSections == <<Section(".text", 0, 2, "text"), Section(".data", 10, 6, "data"),
                    Section(".bss", 20, 5, "bss"), Section(".heap_start", 30, 0, "reserved")>>
PlacedInputs == <<Row(".text", 0, 2, "app"),
                  Row(".data", 10, 2, "app"), Row(".data", 12, 1, "*fill*"), Row(".data", 13, 1, "*fill*"),
                  Row(".data", 14, 2, "lib"),
                  Row(".bss", 20, 1, "lib"), Row(".bss", 21, 1, "*fill*"), Row(".bss", 22, 3, "app")>>

Link(sections, symbols) ==
  [sections |-> ToSet(sections), symbols |-> symbols, rows |-> ToSet(PlacedInputs)]

MCLinks ==
  <<Link(PlacedSections, {Symbol("state", ".data", 10, 2), Symbol("alias", ".data", 10, 2),
                          Symbol("count", ".bss", 22, 2), Symbol("stray", ".data", 14, 1),
                          Symbol("twin", ".bss", 24, 1), Symbol("twin", ".bss", 20, 1)}),
    Link(PlacedSections, {Symbol("state", ".bss", 22, 2), Symbol("count", ".bss", 23, 2)}),
    Link([PlacedSections EXCEPT ![3].size = 6], {Symbol("state", ".data", 10, 2)})>>

(* The map of a layout: sections and rows on one line or on two. *)
Text(kind, name, address, size, owner) ==
  [kind |-> kind, name |-> name, address |-> address, size |-> size, owner |-> owner]
Split(kind, tail, r, name, owner, split) ==
  IF split THEN <<Text(kind \o "Name", name, 0, 0, ""), Text(tail, "", r.address, r.size, owner)>>
  ELSE <<Text(kind, name, r.address, r.size, owner)>>
RowText(r, split) ==
  IF r.owner = "*fill*" THEN <<Text("fill", "", r.address, r.size, "")>>
  ELSE Split("in", "inRange", r, ".in", r.owner, split)

SectionText(s, splitSection, splitRows) ==
  Split("out", "range", s, s.name, "", splitSection)
  \o FlattenSeq([i \in DOMAIN PlacedInputs |->
       IF PlacedInputs[i].section = s.name THEN RowText(PlacedInputs[i], splitRows) ELSE <<>>])

Noise == <<Text("outName", ".debug", 0, 0, "")>>
WholeMap(splitSection, splitRows, noise) ==
  <<Text("out", "*default*", 0, 99, ""), Text("other", "", 0, 0, "")>>
  \o FlattenSeq([i \in DOMAIN PlacedSections |->
       SectionText(PlacedSections[i], splitSection, splitRows)
       \o IF noise = i THEN Noise \o <<Text("other", "", 0, 0, "")>> ELSE <<>>])

WholeMaps == {WholeMap(ss, sr, noise) : ss \in BOOLEAN, sr \in BOOLEAN, noise \in {0, 2}}

(* One line lost, repeated or moved, or the end of the file lost. *)
Damaged(lines) ==
  LET n == Len(lines)
  IN {SubSeq(lines, 1, i) : i \in 0 .. n}
     \cup {RemoveAt(lines, i) : i \in 1 .. n}
     \cup {InsertAt(lines, i, lines[i]) : i \in 1 .. n}
     \cup {[lines EXCEPT ![i] = lines[i + 1], ![i + 1] = lines[i]] : i \in 1 .. n - 1}

AllMaps == WholeMaps \cup UNION {Damaged(lines) : lines \in WholeMaps}
MCPrintedMaps == [link \in DOMAIN MCLinks |-> IF link = 1 THEN AllMaps ELSE WholeMaps]

OwnerEntry(owner, profiles, symbols) == [owner |-> owner, profiles |-> profiles, symbols |-> symbols]
Policy(scenario, ceiling, entries) ==
  [scenario |-> scenario, zenoh |-> TRUE, ceiling |-> ceiling, wireProfile |-> "cbor",
   inventory |-> [valid |-> TRUE, entries |-> entries]]

Listed == <<OwnerEntry("a", {}, <<"state", "alias">>), OwnerEntry("b", {"cbor"}, <<"count">>),
            OwnerEntry("c", {"json"}, <<"absent">>)>>

MCPolicies ==
  {Policy("OFF", ceiling, Listed) : ceiling \in {-1, 0, 7, 8}}
  \cup {Policy("OFF", 8, <<OwnerEntry("a", {}, <<name>>)>>) : name \in {"stray", "absent", "twin"}}
  \cup {Policy("OFF", 8, <<OwnerEntry("a", {}, <<"state">>), OwnerEntry("b", {}, <<"state">>)>>)}
  \cup {Policy("ON", 8, Listed), [Policy("ON", 8, Listed) EXCEPT !.zenoh = FALSE]}

RestingBuild == [link |-> 1, policy |-> Policy("OFF", 8, Listed)]

-----------------------------------------------------------------------------
(* The release: one check of the released image and one of a variant. *)
MCChecks ==
  [build |-> [artifact |-> "release", records |-> 0, units |-> 0],
   smoke |-> [artifact |-> "release", records |-> 1, units |-> 1],
   agent |-> [artifact |-> "variant", records |-> 1, units |-> 1]]
MCPins ==
  [idf |-> [format |-> "espidf", component |-> "idf", version |-> 5, revision |-> 0],
   zenoh |-> [format |-> "json", component |-> "zenoh-pico", version |-> 10, revision |-> 1]]
MCDeclared ==
  [axes |-> "declared", networkStack |-> FALSE,
   transport |-> [name |-> "mqtt-espidf", source |-> "idf", component |-> "idf",
                  backend |-> "esp-idf/mqtt", version |-> 5, revision |-> 0],
   budgets |-> [static |-> 5, image |-> 9]]
MCMetrics == [static |-> 5, data |-> 2, bss |-> 3, image |-> 9]

-----------------------------------------------------------------------------
(* The composition: the two applications of the repository, selections with
   one fault each, and tables that are whole, short, or lack one field. *)
AllNames(side) == [i \in DOMAIN Catalog[side] |-> Catalog[side][i][1]]
SmokeTree ==
  [wellFormed |-> TRUE, revision |-> 1, locked |-> 1,
   required |-> [side \in Sides |-> AllNames(side)],
   available |-> [side \in Sides |-> AllNames(side)],
   capacities |-> [topic |-> 4, payload |-> 8], limits |-> [topic |-> 4, payload |-> 8],
   listed |-> {"main"}, onDisk |-> {"main"}]
NodeTree ==
  [SmokeTree EXCEPT
     !.required = [platform |-> <<"clock", "stack", "bootstrap">>, carrier |-> <<"poll", "disconnect">>],
     !.capacities = [topic |-> 2, payload |-> 8]]

MCTrees ==
  {SmokeTree, NodeTree, [SmokeTree EXCEPT !.capacities.payload = 9],
   [SmokeTree EXCEPT !.available.carrier = Tail(@)], [NodeTree EXCEPT !.locked = 2],
   [NodeTree EXCEPT !.required.carrier = <<"poll", "poll">>], [NodeTree EXCEPT !.listed = {}]}

WholeTable(side) ==
  [size |-> Len(StructFields[side]), present |-> ToSet(StructFields[side]),
   bits |-> {c[2] : c \in ToSet(Catalog[side])}]
SideTables(side) ==
  {[WholeTable(side) EXCEPT !.size = n] : n \in 0 .. Len(StructFields[side])}
  \cup {[WholeTable(side) EXCEPT !.present = @ \ {f}] : f \in ToSet(StructFields[side])}
  \cup {[WholeTable(side) EXCEPT !.bits = @ \ {b}] : b \in WholeTable(side).bits}
MCTables ==
  {[platform |-> p, carrier |-> WholeTable("carrier")] : p \in SideTables("platform")}
  \cup {[platform |-> WholeTable("platform"), carrier |-> c] : c \in SideTables("carrier")}
=============================================================================
