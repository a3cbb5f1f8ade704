---------------------------- MODULE MCDiscovery ----------------------------
(* Device trees of up to five nodes, machines of up to three buses, and    *)
(* every day from 1970 to 2108.                                            *)
EXTENDS Discovery, SequencesExt

Prop(n, l, v) == [name |-> n, len |-> l, vals |-> v]
NOP == Prop("NOP", 0, <<>>)
Virtio == Prop("compatible", 12, <<"virtio,mmio">>)
VirtioSecond == Prop("compatible", 17, <<"acme", "virtio,mmio">>)
Clint == Prop("compatible", 14, <<"sifive,clint0">>)

\* A node's own properties: in either order, of odd lengths, with NOPs, with a
\* `reg` of two entries, of one, and of less than one.
PropLists ==
  { <<>>,
    <<Virtio, Prop("reg", 16, <<"A">>)>>,
    <<Prop("reg", 8, <<>>), NOP, VirtioSecond>>,
    <<Prop("status", 5, <<"okay">>), Clint, Prop("reg", 32, <<"A", "B">>)>>,
    <<NOP, Prop("device_type", 4, <<"cpu">>), Prop("interrupts", 4, <<7>>)>> }

Node(n, l, d, ps, ks) == [name |-> n, nlen |-> l, dev |-> d, props |-> ps, kids |-> ks]

Leaves == {Node(n[1], n[2], n[3], ps, <<>>) :
             n \in {<<"cpu", 5, 0>>, <<"slot", 13, 18>>}, ps \in PropLists}
Inner == Leaves \cup {Node("cpus", 4, 0, ps, <<l>>) :
                        ps \in {<<>>, <<Virtio>>, <<Prop("reg", 16, <<"C">>)>>}, l \in Leaves}

Trees == {Node("", 0, 0, <<Prop("model", 3, <<"m">>)>>, <<a, b>>) :
            a \in Inner, b \in Leaves}

\* A tree as a structure block.
RECURSIVE Tokens(_)
Tokens(n) ==
  <<[tok |-> "BEGIN_NODE", node |-> n]>>
    \o [i \in DOMAIN n.props |-> PropToken(n.props[i])]
    \o FlattenSeq([i \in DOMAIN n.kids |-> Tokens(n.kids[i])])
    \o <<[tok |-> "END_NODE"]>>

Flatten(tree) ==
  LET ts == Append(Tokens(tree), [tok |-> "END"])
      start[i \in 1..Len(ts) + 1] == IF i = 1 THEN 0 ELSE start[i - 1] + Bytes(ts[i - 1])
      Placed(i) == IF ts[i].tok = "BEGIN_NODE"
                   THEN ts[i] @@ [body |-> [j \in 1..Len(ts[i].node.props) + 1 |-> start[i + j]]]
                   ELSE ts[i]
  IN [size |-> start[Len(ts) + 1],
      at |-> [o \in {start[i] : i \in DOMAIN ts} |->
                Placed(CHOOSE i \in DOMAIN ts : start[i] = o)]]

MCBlobs == {Flatten(t) : t \in Trees}

MCQueries ==
  {[by |-> "compatible", key |-> "virtio,mmio"], [by |-> "compatible", key |-> "sifive,clint0"],
   [by |-> "virtio", key |-> 18], [by |-> "named", key |-> "cpu"], [by |-> "cpus", key |-> 0]}

\* Functions: an endpoint that is looked for, another one, a bridge.
Func(i, m, s) == [id |-> i, multi |-> m, sec |-> s]

\* Devices of three functions: empty, single, and multi-function with gaps.
Endpoint == {"nvme", "hda"}
Devices(bus) ==
  {[f \in {} |-> Func("hda", FALSE, 0)]}
    \cup {[f \in {0} |-> Func(i, FALSE, 0)] : i \in Endpoint}
    \cup {[f \in {0} |-> Func("bridge", FALSE, s)] : s \in {0, bus + 1}}
    \cup {[f \in fs |-> IF f = 0 THEN Func("hda", TRUE, 0) ELSE Func("nvme", FALSE, 0)] :
            fs \in {{0, 1}, {0, 2}}}
    \cup {[f \in {0, 2} |-> IF f = 0 THEN Func("nvme", TRUE, 0) ELSE Func("bridge", TRUE, bus + 1)]}

OnBus(b, d0, d1) ==
  LET at(d, f) == (b * NDevs + d) * NFuncs + f
  IN [a \in {at(0, f) : f \in DOMAIN d0} \cup {at(1, f) : f \in DOMAIN d1} |->
        IF a < at(1, 0) THEN d0[a % NFuncs] ELSE d1[a % NFuncs]]

\* One bridge at most leads to a bus.
Bridges(d) == Cardinality({f \in DOMAIN d : d[f].sec # 0})

MCMachines ==
  {OnBus(0, p[1], p[2]) @@ OnBus(1, p[3], p[4]) @@ OnBus(2, p[5], p[5]) :
     p \in {q \in Devices(0) \X Devices(0) \X Devices(1) \X Devices(1)
                   \X {[f \in {0} |-> Func("nvme", FALSE, 0)]} :
              Bridges(q[1]) + Bridges(q[2]) <= 1 /\ Bridges(q[3]) + Bridges(q[4]) <= 1}}
=============================================================================
