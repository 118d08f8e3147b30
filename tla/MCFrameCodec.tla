---------------------------- MODULE MCFrameCodec ----------------------------
(* Bit-boundary values of every field the codec shifts or masks; inputs of *)
(* every length from 12 bytes, a cut header, to 21.                        *)
EXTENDS FrameCodec

CONSTANTS m1, m2

MCMac == {m1, m2}

Tcis == {p * 8192 + d * 4096 + v :
          p \in {0, 5, 7}, d \in {0, 1}, v \in {0, 1, 42, 4094, 4095}}

Types == {2048, 34999, TPID_802_1Q}

MCWireInputs ==
  {[dst |-> m1, src |-> m2, words |-> w, odd |-> o] :
     w \in {<< >>, <<TPID_802_1Q>>, <<2048>>, <<2048, 7>>}
        \cup {<<TPID_802_1Q, t>> : t \in Tcis}
        \cup {<<TPID_802_1Q, t, e>> : t \in Tcis, e \in Types}
        \cup {<<TPID_802_1Q, t, e, 9>> : t \in Tcis, e \in Types},
     o \in {<< >>, <<129>>}}

MCBuiltFrames ==
  {[dst |-> m1, src |-> m2, tag |-> t, ethertype |-> e, payload |-> p,
    odd |-> o] :
     t \in {NoTag} \cup [pcp : {0, 3, 7, 8, 255}, dei : BOOLEAN,
                         vid : {0, 100, 4095, 4096, 65535}],
     e \in Types, p \in {<< >>, <<1, 2>>}, o \in {<< >>, <<129>>}}
=============================================================================
