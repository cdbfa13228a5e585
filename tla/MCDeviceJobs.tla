---------------------------- MODULE MCDeviceJobs -----------------------------
(***************************************************************************)
(* Programs for the threads of Device: convolutions and additions.         *)
(***************************************************************************)
EXTENDS Conv2d

Axes(h, w) == [h |-> h, w |-> w]

Layer(H, W, k, stride, pad, dilation) ==
  Geometry([N |-> 2, Cin |-> 1, H |-> H, W |-> W, Cout |-> 2, kH |-> k, kW |-> 2,
            stride |-> stride, pad |-> pad, dilation |-> dilation, bias_enabled |-> TRUE])

None == Axes(0, 0)
One == Axes(1, 1)

(* Overlapping windows; padding, and a channel of two blocks; strides that *)
(* leave pixels out; dilation; a window larger than the input; several     *)
(* input channels without a bias.  The axes differ.                        *)
Layers == <<Layer(2, 3, 2, One, None, One), Layer(2, 3, 2, One, Axes(1, 0), One),
           Layer(3, 4, 2, Axes(1, 2), None, One), Layer(3, 3, 2, One, None, Axes(2, 1)),
           Layer(2, 2, 4, Axes(3, 1), None, One),
           Geometry([Layer(2, 2, 2, One, None, One)
                       EXCEPT !.Cin = 2, !.N = 1, !.bias_enabled = FALSE])>>

Upload(block) == [do |-> "upload", block |-> block]
Read(block)   == [do |-> "read", block |-> block]

Forward(g) ==
  [name |-> "forward", g |-> g, n |-> 0,
   program |-> <<Upload("weight"), Upload("bias"), Upload("input")>> \o forward(g)
                 \o <<Read("out_flat")>>]

Backward(g) ==
  [name |-> "backward", g |-> g, n |-> 0,
   program |-> <<Upload("weight"), Upload("input"), Upload("grad_output")>>
                 \o backward(g) \o <<Synchronize, Memcpy("read_input", "grad_input"),
                                      Memcpy("read_weight", "grad_weight"),
                                      Memcpy("read_bias", "grad_bias")>>]

Add(supported, synchronizes) ==
  LET barrier == IF synchronizes THEN <<[do |-> "device_synchronize"]>> ELSE <<>>
  IN [name |-> "add", g |-> Layer(1, 2, 1, One, None, One), n |-> 7, supported |-> supported,
      synchronizes |-> synchronizes,
      program |-> <<Upload("x"), Upload("y")>> \o barrier
                    \o <<[do |-> "add", supported |-> supported]>> \o barrier
                    \o <<Read("z")>>]

Tiny == Geometry([Layer(1, 2, 1, One, None, One) EXCEPT !.N = 1, !.Cout = 1])

Idle == [name |-> "idle", g |-> Tiny, n |-> 0, program |-> <<>>]

MCJobs ==
  [i \in DOMAIN Layers |-> Forward(Layers[i])]
    \o [i \in DOMAIN Layers |-> Backward(Layers[i])] \o <<Backward(Tiny), Idle>>
    \o <<Add(TRUE, TRUE), Add(TRUE, FALSE), Add(FALSE, TRUE), Add(FALSE, FALSE)>>
=============================================================================
