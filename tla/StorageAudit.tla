---------------------------- MODULE StorageAudit ----------------------------
(***************************************************************************)
(* The post-link static-storage gate: the policy classification            *)
(* (static_storage_policy.py), the audit of the linked image against the   *)
(* linker map (linked_storage_audit.py) and the shell gate around them     *)
(* (static-storage-build-gate.sh), all in Tools/EmbeddedApplicationMacros. *)
(*                                                                         *)
(* A linked image is its ELF sections, its writable symbols and the input  *)
(* rows the linker placed.  The map file prints those rows line by line,   *)
(* in one or two lines each, and may be damaged.  A map line is what the   *)
(* auditor's regular expressions tell apart:                               *)
(*   out, outName, range     an output section, on one line or on two      *)
(*   in, inName, inRange     an input row, on one line or on two           *)
(*   fill, other             linker padding, and anything else             *)
(***************************************************************************)
EXTENDS Integers, SequencesExt

CONSTANTS
  Links,          \* link -> [sections, symbols, rows]
  PrintedMaps,    \* link -> the line sequences its map file may hold
  Policies,       \* what the CMake cache and the application configure
  Object,         \* the combined object's owner in the map
  MaxGates        \* bound on gate runs

VARIABLES
  build,          \* the linked image and policy in the build directory
  files,          \* the evidence directory: report and receipt
  audit           \* the running gate

auditVars == <<build, files, audit>>

NoFile == [status |-> "none"]
Padding == "*fill*"

Unparsed == [open |-> FALSE, pendIn |-> "", pendOut |-> "", outputs |-> <<>>, found |-> FALSE]

Resting == [pc |-> "idle", gates |-> 0, lines |-> <<>>, at |-> 1, map |-> Unparsed,
            debit |-> 0, joined |-> {}]

AuditInit ==
  /\ build \in [link : DOMAIN Links, policy : Policies]
  /\ files = [report |-> NoFile, receipt |-> NoFile]
  /\ audit = Resting

-----------------------------------------------------------------------------
(* The parser of the map, one line at a time (parse_map).  The current output
   section, when open, is the last one of outputs. *)

MapLine == audit.lines[audit.at]
Parsing == audit.pc = "parse" /\ audit.at <= Len(audit.lines)

Advance(map) ==
  /\ audit' = [audit EXCEPT !.at = @ + 1, !.map = map]
  /\ UNCHANGED <<build, files>>

Stop(pc) == audit' = [Resting EXCEPT !.pc = pc, !.gates = audit.gates]

AuditRefuses == Stop("idle") /\ UNCHANGED <<build, files>>

Opened(map, name, line) ==
  [map EXCEPT !.open = TRUE,
              !.outputs = Append(@, [name |-> name, address |-> line.address, size |-> line.size,
                                     inputs |-> <<>>])]

WithRow(map, name, owner, line) ==
  [map EXCEPT !.outputs[Len(map.outputs)].inputs =
                 Append(@, [input |-> name, address |-> line.address, size |-> line.size, owner |-> owner]),
              !.found = @ \/ owner = Object]

(* A name-only output line that no range follows is dropped, and with it the
   current section. *)
AfterPendingOutput(map) ==
  IF map.pendOut = "" THEN map ELSE [map EXCEPT !.pendOut = "", !.open = FALSE]

HeaderLine ==
  /\ Parsing /\ MapLine.kind = "out" /\ audit.map.pendIn = ""
  /\ Advance(Opened(audit.map, MapLine.name, MapLine))

SplitHeaderLine ==
  /\ Parsing /\ MapLine.kind = "range" /\ audit.map.pendOut # ""
  /\ Advance([Opened(audit.map, audit.map.pendOut, MapLine) EXCEPT !.pendOut = ""])

OutputNameLine ==
  /\ Parsing /\ MapLine.kind = "outName"
  /\ Advance([AfterPendingOutput(audit.map) EXCEPT !.pendOut = MapLine.name, !.open = FALSE])

(* A line below the headers, in an open section of a dotted name. *)
BodyLine ==
  /\ Parsing /\ MapLine.kind \notin {"out", "outName"}
  /\ ~(MapLine.kind = "range" /\ audit.map.pendOut # "")

InSection ==
  LET map == AfterPendingOutput(audit.map)
  IN map.open /\ Last(map.outputs).name # "*default*"

IgnoredLine ==
  /\ BodyLine
  /\ ~InSection \/ (audit.map.pendIn = "" /\ MapLine.kind \in {"range", "inRange", "other"})
  /\ Advance(AfterPendingOutput(audit.map))

RowLine ==
  /\ BodyLine /\ InSection /\ audit.map.pendIn = "" /\ MapLine.kind \in {"in", "fill"}
  /\ Advance(IF MapLine.kind = "in" THEN WithRow(audit.map, MapLine.name, MapLine.owner, MapLine)
             ELSE WithRow(audit.map, Padding, "linker padding", MapLine))

RowNameLine ==
  /\ BodyLine /\ InSection /\ audit.map.pendIn = "" /\ MapLine.kind = "inName"
  /\ Advance([audit.map EXCEPT !.pendIn = MapLine.name])

SplitRowLine ==
  /\ BodyLine /\ InSection /\ audit.map.pendIn # "" /\ MapLine.kind = "inRange"
  /\ Advance([WithRow(audit.map, audit.map.pendIn, MapLine.owner, MapLine) EXCEPT !.pendIn = ""])

IncompleteRecord ==
  /\ Parsing /\ audit.map.pendIn # ""
  /\ MapLine.kind = "out" \/ (BodyLine /\ InSection /\ MapLine.kind # "inRange")
  /\ AuditRefuses

EndOfMap ==
  /\ audit.pc = "parse" /\ audit.at > Len(audit.lines)
  /\ UNCHANGED <<build, files>>
  /\ IF audit.map.pendIn = "" /\ audit.map.pendOut = "" /\ audit.map.found
     THEN audit' = [audit EXCEPT !.pc = "measure"]
     ELSE Stop("idle")

-----------------------------------------------------------------------------
(* The measurement (measure). *)

Until(r) == r.address + r.size
Before(a, b) == a.address < b.address \/ (a.address = b.address /\ Until(a) <= Until(b))
InOrder(rows) == SetToSortSeq(rows, LAMBDA a, b : a # b /\ Before(a, b))

(* The bytes of a union of ranges, swept in address order. *)
MergedBytes(rows) ==
  FoldLeft(LAMBDA swept, r :
             IF r.address > swept.end
             THEN [total |-> swept.total + r.size, end |-> Until(r)]
             ELSE IF Until(r) > swept.end
             THEN [total |-> swept.total + Until(r) - swept.end, end |-> Until(r)]
             ELSE swept,
           [total |-> 0, end |-> -1],
           InOrder({[address |-> r.address, size |-> r.size] : r \in rows})).total

Writable(link) == {s \in Links[link].sections : s.write}

(* Two symbols of a section overlap without being aliases of one range: swept
   with the symbols still active at each address. *)
ConflictingOverlaps(symbols) ==
  LET sweep(group) ==
        FoldLeft(LAMBDA swept, s :
                   LET active == {a \in swept.active : Until(a) > s.address}
                   IN [active |-> active \cup {s},
                       conflict |-> swept.conflict \/ \E a \in active :
                                      <<a.address, a.size>> # <<s.address, s.size>>],
                 [active |-> {}, conflict |-> FALSE],
                 InOrder({[address |-> s.address, size |-> s.size] : s \in group})).conflict
  IN \E section \in {s.section : s \in symbols} : sweep({s \in symbols : s.section = section})

MapOutputs == ToSet(audit.map.outputs)
NamedOnce == \A i, j \in DOMAIN audit.map.outputs :
               audit.map.outputs[i].name = audit.map.outputs[j].name => i = j

(* The cursor passes over the section's rows without a gap. *)
RowsCover(output) ==
  LET rows == {r \in ToSet(output.inputs) : r.size # 0}
      cursor == FoldLeft(LAMBDA c, r : IF c = -1 \/ r.address > c THEN -1 ELSE Max({c, Until(r)}),
                         output.address, InOrder({[address |-> r.address, size |-> r.size] : r \in rows}))
  IN cursor = Until(output)

Covered(section) ==
  \E output \in MapOutputs :
    /\ output.name = section.name
    /\ output.address = section.address /\ output.size = section.size
    /\ \A r \in ToSet(output.inputs) : r.address >= output.address /\ Until(r) <= Until(output)
    /\ RowsCover(output)

(* The object's rows and, pass by pass, the padding that touches one of them. *)
\* Mutant: only padding after a row is charged.
Touches_After(r, s) == r.address = Until(s)
Touches(r, s) == Until(r) = s.address \/ r.address = Until(s)

Selected(output) ==
  LET rows == ToSet(output.inputs)
      fills == {r \in rows : r.input = Padding}
      matching == {r \in rows : r.owner = Object /\ r.size # 0}
      pass[n \in 0 .. Cardinality(fills)] ==
        IF n = 0 THEN matching
        ELSE pass[n - 1] \cup {r \in fills : \E s \in pass[n - 1] : Touches(r, s)}
  IN pass[Cardinality(fills)]

ObjectSections ==
  UNION {Selected(output) : output \in {o \in MapOutputs : \E s \in Writable(build.link) : s.name = o.name}}

Measurable ==
  /\ \A s \in Writable(build.link) : s.class # "unsupported"
  /\ ~ConflictingOverlaps(Links[build.link].symbols)
  /\ NamedOnce
  /\ \A s \in Writable(build.link) : s.size # 0 => Covered(s)
  /\ ObjectSections # {}

Measure ==
  /\ audit.pc = "measure" /\ Measurable
  /\ audit' = [audit EXCEPT !.pc = "join", !.debit = MergedBytes(ObjectSections)]
  /\ UNCHANGED <<build, files>>

MeasureRefused == audit.pc = "measure" /\ ~Measurable /\ AuditRefuses

-----------------------------------------------------------------------------
(* The join of the application's inventory with the symbols (join_inventory). *)

Inventory == build.policy.inventory

Applicable ==
  SelectSeq(Inventory.entries,
            LAMBDA e : \/ build.policy.wireProfile = "" \/ e.profiles = {}
                       \/ build.policy.wireProfile \in e.profiles)

ExpectedNames == FlattenSeq([i \in DOMAIN Applicable |-> Applicable[i].symbols])

Matches(name) == {s \in Links[build.link].symbols : s.name = name}

ContainingRows(symbol) ==
  UNION {{<<output.name, i>> : i \in {j \in DOMAIN output.inputs :
                                   LET r == output.inputs[j]
                                   IN /\ r.size # 0 /\ r.address <= symbol.address
                                      /\ Until(symbol) <= Until(r)}}
         : output \in {o \in MapOutputs : o.name = symbol.section}}

OwnedByObject(symbol) ==
  \A output \in MapOutputs : \A i \in DOMAIN output.inputs :
    <<output.name, i>> \in ContainingRows(symbol) => output.inputs[i].owner = Object

ClassOf(name) == (CHOOSE s \in Links[build.link].sections : s.name = name).class

Joinable(name) ==
  /\ Cardinality(Matches(name)) = 1
  /\ \A s \in Matches(name) : /\ ClassOf(s.section) \in {"data", "bss"}
                              /\ Cardinality(ContainingRows(s)) = 1 /\ OwnedByObject(s)

JoinAccepts ==
  /\ Inventory.valid
  /\ IsInjective([i \in DOMAIN Inventory.entries |-> Inventory.entries[i].owner])
  /\ \A e \in ToSet(Inventory.entries) : e.symbols # <<>>
  /\ IsInjective(ExpectedNames)
  /\ \A name \in ToSet(ExpectedNames) : Joinable(name)

JoinInventory ==
  /\ audit.pc = "join" /\ JoinAccepts
  /\ audit' = [audit EXCEPT !.pc = "write", !.joined = UNION {Matches(n) : n \in ToSet(ExpectedNames)}]
  /\ UNCHANGED <<build, files>>

JoinRefused == audit.pc = "join" /\ ~JoinAccepts /\ AuditRefuses

\* Mutant: an alias is charged again.
RangesCharged_PerSymbol(symbols) == MapThenSumSet(LAMBDA s : s.size, symbols)

(* Each symbol's charge: the first of a range is charged, its aliases are not.
   The union is merged section by section. *)
RangesCharged(symbols) ==
  MapThenSumSet(LAMBDA range : range[3], {<<s.section, s.address, s.size>> : s \in symbols})

JoinedUnion(symbols) ==
  MapThenSumSet(LAMBDA section : MergedBytes({s \in symbols : s.section = section}),
                {s.section : s \in symbols})

-----------------------------------------------------------------------------
(* The gate (static-storage-build-gate.sh, main of the auditor). *)

(* A platform build relinks the image or the application's policy changes,
   only between gates. *)
Relink ==
  /\ audit.pc = "idle" /\ audit.gates \in 1 .. MaxGates - 1
  /\ \E link \in DOMAIN Links, policy \in Policies :
       /\ build # [link |-> link, policy |-> policy]
       /\ build' = [link |-> link, policy |-> policy]
  /\ UNCHANGED <<files, audit>>

\* Mutant: the previous evidence stays until it is overwritten.
GateStart_Keep ==
  /\ audit.pc = "idle" /\ audit.gates < MaxGates
  /\ audit' = [Resting EXCEPT !.pc = "classify", !.gates = audit.gates + 1]
  /\ UNCHANGED <<build, files>>

(* The previous report and receipt go first. *)
GateStart ==
  /\ audit.pc = "idle" /\ audit.gates < MaxGates
  /\ files' = [report |-> NoFile, receipt |-> NoFile]
  /\ audit' = [Resting EXCEPT !.pc = "classify", !.gates = audit.gates + 1]
  /\ UNCHANGED build

PolicyConfigured ==
  /\ build.policy.scenario = "OFF" /\ build.policy.ceiling \in Nat \ {0} /\ Inventory.valid

(* Nothing to enforce: a C-only image, or an application without a ceiling. *)
PolicyStatus ==
  IF build.policy.scenario = "ON" /\ build.policy.zenoh THEN "not-applicable"
  ELSE IF build.policy.scenario = "OFF" /\ build.policy.ceiling = -1 THEN "not-configured"
  ELSE "none"

Classified ==
  /\ audit.pc = "classify" /\ PolicyStatus # "none"
  /\ files' = [files EXCEPT !.receipt = [status |-> PolicyStatus, build |-> build]]
  /\ Stop("idle")
  /\ UNCHANGED build

PolicyRefused ==
  /\ audit.pc = "classify" /\ PolicyStatus = "none" /\ ~PolicyConfigured
  /\ AuditRefuses

AuditStart ==
  /\ audit.pc = "classify" /\ PolicyConfigured
  /\ \E lines \in PrintedMaps[build.link] :
       audit' = [audit EXCEPT !.pc = "parse", !.lines = lines]
  /\ UNCHANGED <<build, files>>

(* The report is written whether or not the debit fits the ceiling. *)
WriteReport ==
  /\ audit.pc = "write"
  /\ files' = [files EXCEPT !.report =
       [status |-> IF audit.debit <= build.policy.ceiling THEN "passed" ELSE "exceeded",
        build |-> build, debit |-> audit.debit, joined |-> audit.joined,
        charged |-> RangesCharged(audit.joined), union |-> JoinedUnion(audit.joined)]]
  /\ IF audit.debit <= build.policy.ceiling
     THEN audit' = [audit EXCEPT !.pc = "receipt"]
     ELSE Stop("idle")
  /\ UNCHANGED build

WriteGateReceipt ==
  /\ audit.pc = "receipt"
  /\ files' = [files EXCEPT !.receipt = [status |-> "enforced", build |-> build]]
  /\ Stop("idle")
  /\ UNCHANGED build

(* The build is interrupted anywhere. *)
GateKilled == audit.pc # "idle" /\ AuditRefuses

ParseNext ==
  \/ HeaderLine \/ SplitHeaderLine \/ OutputNameLine \/ IgnoredLine \/ RowLine
  \/ RowNameLine \/ SplitRowLine \/ IncompleteRecord \/ EndOfMap

AuditNext ==
  \/ ParseNext \/ Measure \/ MeasureRefused \/ JoinInventory \/ JoinRefused
  \/ Relink \/ GateStart \/ Classified \/ PolicyRefused \/ AuditStart
  \/ WriteReport \/ WriteGateReceipt \/ GateKilled

AuditSpec == AuditInit /\ [][AuditNext]_auditVars

-----------------------------------------------------------------------------
Bytes(r) == r.address .. Until(r) - 1

(* What the linker placed: the object's rows in the writable sections and the
   least set of padding rows that reaches every padding next to them. *)
PlacedRows(link) ==
  {r \in Links[link].rows : \E s \in Writable(link) : s.name = r.section /\ Bytes(r) # {}}

ChargedRows(link) ==
  LET own == {r \in PlacedRows(link) : r.owner = Object}
      fills == {r \in PlacedRows(link) : r.owner = Padding}
      closed(rows) == \A f \in fills \ rows : \A r \in rows :
                        r.section = f.section => r.address # Until(f) /\ f.address # Until(r)
  IN own \cup CHOOSE least \in {f \in SUBSET fills : closed(own \cup f)} :
                 \A other \in {f \in SUBSET fills : closed(own \cup f)} : least \subseteq other

ChargedBytes(link) == UNION {Bytes(r) : r \in ChargedRows(link)}

(* However the map file is printed or damaged, a measurement that is accepted
   is exact: no two writable symbols of the image overlap unless they are
   aliases of one range, every byte of every writable section was seen, and
   the debit is the number of bytes the linker placed for the object and the
   padding around it. *)
MeasurementExact ==
  audit.pc \in {"join", "write", "receipt"} =>
    LET link == build.link
        symbols == Links[link].symbols
    IN /\ \A s, t \in symbols : s.section = t.section /\ Bytes(s) \cap Bytes(t) # {} => Bytes(s) = Bytes(t)
       /\ \A s \in Writable(link) :
            Bytes(s) = UNION {Bytes(r) : r \in UNION {ToSet(o.inputs) : o \in {p \in MapOutputs : p.name = s.name}}}
                       \cap Bytes(s)
       /\ audit.debit = Cardinality(ChargedBytes(link))

(* A report charges every byte of the joined symbols once, whatever aliases
   the inventory lists, and charges none outside the object's debit. *)
JoinExact ==
  files.report.status # "none" =>
    LET report == files.report
        bytes == UNION {Bytes(s) : s \in report.joined}
    IN /\ report.charged = Cardinality(bytes) /\ report.union = Cardinality(bytes)
       /\ bytes \subseteq ChargedBytes(report.build.link)

(* A receipt is never older than the report beside it and never says more:
   "enforced" stands for a report of the same build whose bytes fit the
   ceiling, and the other receipts, with no report beside them, for a build
   that configures none. *)
ReceiptTrue ==
  LET receipt == files.receipt
      report == files.report
  IN /\ receipt.status = "enforced" =>
          /\ report.status = "passed" /\ report.build = receipt.build
          /\ Cardinality(ChargedBytes(receipt.build.link)) <= receipt.build.policy.ceiling
     /\ receipt.status \in {"not-configured", "not-applicable"} => report.status = "none"
     /\ receipt.status = "not-configured" => receipt.build.policy.ceiling = -1
     /\ receipt.status = "not-applicable" => receipt.build.policy.scenario = "ON"

=============================================================================
