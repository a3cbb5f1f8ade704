-------------------------------- MODULE Fdt --------------------------------
(***************************************************************************)
(* The device-tree walker (fdt.c) and the loops of the same shape in       *)
(* virtio.c and smp.c: a blob is walked token by token, by byte offsets.   *)
(*                                                                         *)
(* External: the tree in the structure block.  A node has a name (up to    *)
(* the unit address; nlen bytes with it) and its own properties; `dev` is  *)
(* the device that answers at its address.  A property has a length in     *)
(* bytes, and the strings or cells in it.  A NOP may stand where a         *)
(* property may.                                                           *)
(***************************************************************************)
EXTENDS Integers, Sequences, FiniteSetsExt, Functions

CONSTANTS Blobs,     \* the device trees a machine may hand over, flattened
          Queries    \* what is looked for: by compatible, named, virtio, cpus

NoNode == -1                            \* UINT32_MAX
NoProp == [len |-> -1, vals |-> <<>>]   \* NULL
Align4(n) == ((n + 3) \div 4) * 4

-----------------------------------------------------------------------------
(***************************************************************************)
(* The structure block: its size and the token at each offset where one    *)
(* starts.  A node's token says where its properties stand, and what comes *)
(* after them.                                                             *)
(***************************************************************************)

Bytes(t) ==
  CASE t.tok = "BEGIN_NODE" -> Align4(4 + t.node.nlen + 1)
    [] t.tok = "PROP" -> 12 + Align4(t.prop.len)
    [] OTHER -> 4

PropToken(p) ==
  IF p.name = "NOP" THEN [tok |-> "NOP"] ELSE [tok |-> "PROP", prop |-> p]

\* Entries of `reg` have 16 bytes, a cell four.
PropOK(p) ==
  /\ p.len \in Nat /\ p.vals \in Seq(Range(p.vals))
  /\ p.name = "reg" => Len(p.vals) = p.len \div 16
  /\ p.name = "interrupts" => (p.vals = <<>> <=> p.len < 4)

\* The properties of the node at o stand one after the other behind its name,
\* and then comes a child or the end of the node.
NodeOK(b, o) ==
  LET n == b.at[o].node
      body == b.at[o].body
      last == Len(n.props) + 1
  IN /\ n.nlen \in Nat /\ n.props \in Seq(Range(n.props))
     /\ body[1] = o + Bytes(b.at[o])
     /\ \A i \in 1..last : body[i] \in DOMAIN b.at
     /\ b.at[body[last]].tok \in {"BEGIN_NODE", "END_NODE"}
     /\ \A i \in DOMAIN n.props :
          /\ PropOK(n.props[i])
          /\ b.at[body[i]] = PropToken(n.props[i])
          /\ body[i + 1] = body[i] + Bytes(b.at[body[i]])

\* Tokens are aligned and follow each other without gap or overlap up to END.
BlobOK(b) ==
  /\ b.size \in Nat /\ 0 \in DOMAIN b.at
  /\ \A o \in DOMAIN b.at :
       /\ o \in Nat /\ o % 4 = 0 /\ o < b.size
       /\ b.at[o].tok \in {"BEGIN_NODE", "END_NODE", "PROP", "NOP", "END"}
       /\ b.at[o].tok = "BEGIN_NODE" => NodeOK(b, o)
       /\ b.at[o].tok = "PROP" => b.at[o].prop.len \in Nat
       /\ b.at[o].tok # "END" => o + Bytes(b.at[o]) \in DOMAIN b.at
       /\ \A p \in DOMAIN b.at :
            p > o => b.at[o].tok # "END" /\ p >= o + Bytes(b.at[o])

ASSUME FdtAssumption == \A b \in Blobs : BlobOK(b)

VARIABLES
  blob,       \* the structure block
  query,      \* the search in progress
  off,        \* its offset
  cpus,       \* count_cpu_nodes: nodes counted
  result,     \* the node found, NoNode
  fdt_pc      \* idle, walk, done

fdtVars == <<blob, query, off, cpus, result, fdt_pc>>

struct_size == blob.size

\* What is read at an offset; inside a payload that is no token.
TokenAt(o) == IF o \in DOMAIN blob.at THEN blob.at[o] ELSE [tok |-> "payload"]

-----------------------------------------------------------------------------
(***************************************************************************)
(* Looking up a property.                                                  *)
(***************************************************************************)

\* The first token after the node's name, its NUL and the padding.
SkipName(o) == Align4(o + 4 + TokenAt(o).node.nlen + 1)

\* Token, length, name offset, payload and padding.
SkipProp(o) == o + 12 + Align4(TokenAt(o).prop.len)

\* The properties that are looked up.
PropNames == {"compatible", "reg", "interrupts", "device_type"}

\* fdt_node_prop's loop, not stopping at a child.
PropFromDescends[q \in PropNames \X (0..struct_size - 1)] ==
  LET name == q[1]
      o == q[2]
      t == TokenAt(o)
      Go(p) == IF p < struct_size THEN PropFromDescends[<<name, p>>] ELSE NoProp
  IN CASE t.tok = "NOP" -> Go(o + 4)
       [] t.tok = "BEGIN_NODE" -> Go(SkipName(o))
       [] t.tok = "PROP" -> IF t.prop.name = name THEN t.prop ELSE Go(SkipProp(o))
       [] OTHER -> NoProp

\* fdt_node_prop's loop, for a name, from an offset on: this node's own
\* properties, up to a child or the end.
PropFrom[q \in PropNames \X (0..struct_size - 1)] ==
  LET t == TokenAt(q[2])
      next == IF t.tok = "NOP" THEN q[2] + 4 ELSE SkipProp(q[2])
  IN IF t.tok \notin {"NOP", "PROP"} THEN NoProp
     ELSE IF t.tok = "PROP" /\ t.prop.name = q[1] THEN t.prop
     ELSE IF next < struct_size THEN PropFrom[<<q[1], next>>] ELSE NoProp

\* A lookup that goes on into the children.
NodePropDescends(o, name) ==
  IF SkipName(o) < struct_size THEN PropFromDescends[<<name, SkipName(o)>>] ELSE NoProp

\* fdt_node_prop.
NodeProp(o, name) ==
  IF SkipName(o) < struct_size THEN PropFrom[<<name, SkipName(o)>>] ELSE NoProp

\* fdt_node_reg64: entry idx of `reg`, if the property is long enough for it.
NodeReg64(o, idx) ==
  LET reg == NodeProp(o, "reg") IN
  IF (idx + 1) * 16 > reg.len THEN <<>> ELSE <<reg.vals[idx + 1]>>

\* fdt_node_interrupt, and fdt_node_prop_u32: one cell.
NodeInterrupt(o) ==
  LET p == NodeProp(o, "interrupts") IN
  IF p.len < 4 THEN 0 ELSE p.vals[1]

HasString(p, s) == \E i \in DOMAIN p.vals : p.vals[i] = s

\* fdt_find_compatible, and virtio_find_fdt with its probe and its callback.
IsCompatible(o, s) == HasString(NodeProp(o, "compatible"), s)
IsVirtio(o, id) ==
  IsCompatible(o, "virtio,mmio") /\ NodeReg64(o, 0) # <<>> /\ TokenAt(o).node.dev = id

\* fdt_find_node_named, count_cpu_nodes.
IsNamed(o, name) == TokenAt(o).node.name = name
IsCpu(o) == NodeProp(o, "device_type").vals = <<"cpu">>

\* What the walk in progress tests at a node.
Matches(o) ==
  CASE query.by = "compatible" -> IsCompatible(o, query.key)
    [] query.by = "virtio" -> IsVirtio(o, query.key)
    [] query.by = "named" -> IsNamed(o, query.key)
    [] OTHER -> IsCpu(o)

-----------------------------------------------------------------------------
(***************************************************************************)
(* The walk.                                                               *)
(***************************************************************************)

FdtStart ==
  /\ blob \in Blobs
  /\ query \in Queries
  /\ off = 0 /\ cpus = 0 /\ result = NoNode /\ fdt_pc = "walk"

FdtUnused ==
  /\ blob = <<>> /\ query = <<>>
  /\ off = 0 /\ cpus = 0 /\ result = NoNode /\ fdt_pc = "idle"

Walking == fdt_pc = "walk" /\ off < struct_size
Stay == UNCHANGED <<blob, query>>

\* A node: found, or go on with its body.
BeginNode ==
  /\ Walking /\ TokenAt(off).tok = "BEGIN_NODE"
  /\ IF Matches(off) /\ query.by # "cpus"
     THEN result' = off /\ fdt_pc' = "done" /\ UNCHANGED <<off, cpus>>
     ELSE /\ off' = SkipName(off)
          /\ cpus' = IF Matches(off) THEN cpus + 1 ELSE cpus
          /\ UNCHANGED <<result, fdt_pc>>
  /\ Stay

EndNodeOrNop ==
  /\ Walking /\ TokenAt(off).tok \in {"END_NODE", "NOP"}
  /\ off' = off + 4
  /\ Stay /\ UNCHANGED <<cpus, result, fdt_pc>>

Property ==
  /\ Walking /\ TokenAt(off).tok = "PROP"
  /\ off' = SkipProp(off)
  /\ Stay /\ UNCHANGED <<cpus, result, fdt_pc>>

\* FDT_END, or something that is no token.
WalkEnds ==
  /\ fdt_pc = "walk"
  /\ off >= struct_size \/ TokenAt(off).tok \in {"END", "payload"}
  /\ fdt_pc' = "done"
  /\ Stay /\ UNCHANGED <<off, cpus, result>>

FdtNext == BeginNode \/ EndNodeOrNop \/ Property \/ WalkEnds

-----------------------------------------------------------------------------

Nodes == {o \in DOMAIN blob.at : blob.at[o].tok = "BEGIN_NODE"}

\* The node's own property, from the tree.
Own(o, name) ==
  LET props == blob.at[o].node.props
      named == {i \in DOMAIN props : props[i].name = name}
  IN IF named = {} THEN NoProp ELSE props[Min(named)]

\* What the queries mean, from the tree.
Meant ==
  {o \in Nodes :
     CASE query.by = "compatible" -> HasString(Own(o, "compatible"), query.key)
       [] query.by = "virtio" -> /\ HasString(Own(o, "compatible"), "virtio,mmio")
                                 /\ Own(o, "reg").vals # <<>>
                                 /\ blob.at[o].node.dev = query.key
       [] query.by = "named" -> blob.at[o].node.name = query.key
       [] OTHER -> Own(o, "device_type").vals = <<"cpu">>}

\* The walk by byte offsets finds what the tree says: the first node in document
\* order that has the string in its own `compatible` (or the name, or the virtio
\* device behind its own `reg`), no node when there is none, and every cpu, for
\* any lengths of names and properties, with NOPs, and children that have the
\* property their parent lacks (fdt.h:43-52: "does NOT recurse into children",
\* "the first node anywhere in the tree").  A `reg` too short for an entry gives
\* none, and the interrupt is the node's own.
FoundInTree ==
  /\ fdt_pc = "done" =>
       IF query.by = "cpus" THEN cpus = Cardinality(Meant)
       ELSE \/ Meant = {} /\ result = NoNode
            \/ result \in Meant /\ \A o \in Meant : result <= o
  /\ fdt_pc = "walk" /\ off \in Nodes =>
       /\ \A i \in 0..1 : NodeReg64(off, i) =
            LET v == Own(off, "reg").vals IN IF i < Len(v) THEN <<v[i + 1]>> ELSE <<>>
       /\ NodeInterrupt(off) =
            LET v == Own(off, "interrupts").vals IN IF v = <<>> THEN 0 ELSE v[1]
=============================================================================
