------------------------------- MODULE Conv2d -------------------------------
(***************************************************************************)
(* nn/Conv2d.cpp with the kernels it launches, as functions on blocks of   *)
(* memory, and its forward and backward as programs of commands for the    *)
(* thread that runs them (see Device).  A block is a row-major array from  *)
(* 0; a geometry g is a layer with the shape of its input and the sizes    *)
(* derived from both; its stride, pad and dilation have a value for either *)
(* axis, h and w.  All elements are Float32.                               *)
(***************************************************************************)
EXTENDS Integers, Sequences, TLC
LOCAL INSTANCE FiniteSetsExt
LOCAL INSTANCE SequencesExt

CONSTANTS Garbage,   \* the content of a block nobody has written
          kBlock     \* 256 in reduce_sum_axis.cu

Times(x, y) == IF Garbage \in {x, y} THEN Garbage ELSE x * y
Plus(x, y)  == IF Garbage \in {x, y} THEN Garbage ELSE x + y
Below(n) == 0..n - 1

(* Sums, which are garbage when a term is.                                 *)
SumOf(f(_), S) ==
  IF \E s \in S : f(s) = Garbage THEN Garbage
  ELSE FoldSet(LAMBDA s, acc : f(s) + acc, 0, S)

SumBelow(n, f(_)) ==
  LET sum[k \in 0..n] == IF k = 0 THEN 0 ELSE sum[k - 1] + f(k - 1)
  IN IF \E k \in Below(n) : f(k) = Garbage THEN Garbage ELSE sum[n]

(* Integer division of C++ rounds towards zero.                            *)
Quotient(a, b) == IF a >= 0 THEN a \div b ELSE -((-a) \div b)

OutSize(size, kernel, stride, pad, dilation) ==
  Quotient(size + 2 * pad - dilation * (kernel - 1) - 1, stride) + 1

(* A layer with the sizes that forward() computes for it.                  *)
Geometry(layer) ==
  LET outH == OutSize(layer.H, layer.kH, layer.stride.h, layer.pad.h, layer.dilation.h)
      outW == OutSize(layer.W, layer.kW, layer.stride.w, layer.pad.w, layer.dilation.w)
  IN [outH |-> outH, outW |-> outW, spatial |-> outH * outW,
      K |-> layer.Cin * layer.kH * layer.kW] @@ layer

-----------------------------------------------------------------------------
(* The kernels, one thread per element of their output or, for col2im, of  *)
(* their input.                                                            *)

(* The pixel of the input, if there is one, that element t of col is of.   *)
PixelUndilated(oh, ki, stride, dilation, pad) == oh * stride + ki - pad

PixelLine(oh, ki, stride, dilation, pad) == oh * stride + ki * dilation - pad

Pixel(g, t) ==
  LET total_per_n == g.K * g.spatial
      n   == t \div total_per_n
      row == (t % total_per_n) \div g.spatial
      idx == t % g.spatial
      c   == row \div (g.kH * g.kW)
      rk  == row % (g.kH * g.kW)
      ih  == PixelLine(idx \div g.outW, rk \div g.kW, g.stride.h, g.dilation.h, g.pad.h)
      iw  == PixelLine(idx % g.outW, rk % g.kW, g.stride.w, g.dilation.w, g.pad.w)
  IN IF ih \in Below(g.H) /\ iw \in Below(g.W)
     THEN {((n * g.Cin + c) * g.H + ih) * g.W + iw} ELSE {}

ColSize(g) == g.N * g.K * g.spatial

im2col(g, input) ==
  [t \in Below(ColSize(g)) |-> LET p == Pixel(g, t)
                               IN IF p = {} THEN 0 ELSE input[CHOOSE i \in p : TRUE]]

(* The kernel for Float32 adds atomically: no addition is lost.            *)
col2im(g, col, input_grad) ==
  LET pixel == [t \in Below(ColSize(g)) |-> Pixel(g, t)]
  IN [p \in DOMAIN input_grad |->
        Plus(input_grad[p], SumOf(LAMBDA t : col[t], {t \in DOMAIN pixel : p \in pixel[t]}))]

(* C[cbase..] = A[abase..] @ B[bbase..], of shapes [M, K] and [K, N].      *)
gemm(A, abase, B, bbase, C, cbase, M, N, L) ==
  [o \in DOMAIN C |->
     IF o - cbase \notin Below(M * N) THEN C[o]
     ELSE SumBelow(L, LAMBDA k : Times(A[abase + ((o - cbase) \div N) * L + k],
                                       B[bbase + k * N + ((o - cbase) % N)]))]

transpose_2d(in, base, M, N) ==
  [o \in Below(M * N) |-> in[base + (o % M) * N + (o \div M)]]

bias_add(x, b, C, M) == [i \in DOMAIN x |-> Plus(x[i], b[(i \div M) % C])]

(* reduce_sum_axis has a block for each kBlock elements of a channel, and  *)
(* each assigns its sum to the output of the channel: what stays is that   *)
(* of the last to do so.  (Within a block: see ReduceSumAxis.)             *)
GridY(M) == Quotient(M + kBlock - 1, kBlock)

OneBlock(M) == GridY(M) <= 1

LastBlocks(C, M) == [Below(C) -> IF OneBlock(M) THEN {0} ELSE Below(GridY(M))]

reduce_sum_axis_nchw(x, C, M, last) ==
  [c \in Below(C) |->
     SumOf(LAMBDA i : x[i],
           {i \in DOMAIN x : (i \div M) % C = c /\ (i % M) \div kBlock = last[c]})]

(* What kernel k may leave of memory m when it has run for sample n; last  *)
(* matters to reduce_sum_axis only.                                        *)
Outcomes(g, k) == IF k = "reduce_sum_axis" THEN LastBlocks(g.Cout, g.spatial) ELSE {<<>>}

Effect(g, m, k, n, last) ==
  LET S == g.spatial IN
  CASE k = "im2col" -> [m EXCEPT !.col = im2col(g, m.input)]
    [] k = "gemm" ->
         [m EXCEPT !.out_flat = gemm(m.weight, 0, m.col, n * g.K * S,
                                     @, n * g.Cout * S, g.Cout, S, g.K)]
    [] k = "bias_add" -> [m EXCEPT !.out_flat = bias_add(@, m.bias, g.Cout, S)]
    [] k = "transpose_weight" ->
         [m EXCEPT !.w_T = transpose_2d(m.weight, 0, g.Cout, g.K)]
    [] k = "gemm_col_grad" ->
         [m EXCEPT !.col_grad = gemm(m.w_T, 0, m.grad_output, n * g.Cout * S,
                                     @, n * g.K * S, g.K, S, g.Cout)]
    [] k = "col2im" -> [m EXCEPT !.grad_input = col2im(g, m.col_grad, @)]
    [] k = "transpose_col" ->
         [m EXCEPT !.col_n_T = transpose_2d(m.col, n * g.K * S, g.K, S)]
    [] k = "gemm_weight_grad" ->
         [m EXCEPT !.gw_acc = gemm(m.grad_output, n * g.Cout * S, m.col_n_T, 0,
                                   @, 0, g.Cout, g.K, S)]
    [] k = "reduce_sum_axis" ->
         [m EXCEPT !.grad_bias = reduce_sum_axis_nchw(m.grad_output, g.Cout, S, last)]

-----------------------------------------------------------------------------
(* The programs.  gw_h and acc_h are vectors of the host.                  *)

Launch(k, n)     == [do |-> "launch", kernel |-> k, n |-> n]
Zeros(block)     == [do |-> "zeros", block |-> block]
Memcpy(to, from) == [do |-> "memcpy", to |-> to, from |-> from]
Synchronize      == [do |-> "synchronize"]
AddOnHost        == [do |-> "add_on_host"]

PerSample(g, commands(_)) == FlattenSeq([i \in 1..g.N |-> commands(i - 1)])

forward(g) ==
  <<Launch("im2col", 0)>>
    \o PerSample(g, LAMBDA n : <<Launch("gemm", n)>>)
    \o IF g.bias_enabled THEN <<Launch("bias_add", 0)>> ELSE <<>>

NoSynchronize(g) == <<>>

(* Wait for gw_acc before it is copied.                                    *)
BeforeAccumulate(g) == <<Synchronize>>

Accumulate(g) ==
  BeforeAccumulate(g) \o <<Memcpy("gw_h", "grad_weight"), Memcpy("acc_h", "gw_acc"),
                           AddOnHost, Memcpy("grad_weight", "gw_h")>>

backward(g) ==
  <<Launch("im2col", 0), Launch("transpose_weight", 0)>>
    \o PerSample(g, LAMBDA n : <<Launch("gemm_col_grad", n)>>)
    \o <<Zeros("grad_input"), Launch("col2im", 0), Zeros("grad_weight")>>
    \o PerSample(g, LAMBDA n : <<Launch("transpose_col", n), Launch("gemm_weight_grad", n)>>
                                 \o Accumulate(g))
    \o IF g.bias_enabled THEN <<Launch("reduce_sum_axis", 0)>> ELSE <<Zeros("grad_bias")>>

-----------------------------------------------------------------------------
(* cpu_conv2d of Conv2dModule.cpp: the convolution by its definition, with *)
(* a stride, a padding and a dilation for each axis where it has one.      *)

Taps(g) == Below(g.Cin) \X Below(g.kH) \X Below(g.kW)

Reached(o, tap, stride, pad, dilation) == o * stride - pad + tap * dilation

(* The positions, in the input and in the weight, of the products that the *)
(* output at n, co, oh, ow is the sum of.                                  *)
Products(g, n, co, oh, ow) ==
  LET ih(t) == Reached(oh, t[2], g.stride.h, g.pad.h, g.dilation.h)
      iw(t) == Reached(ow, t[3], g.stride.w, g.pad.w, g.dilation.w)
  IN {<<((n * g.Cin + t[1]) * g.H + ih(t)) * g.W + iw(t),
        ((co * g.Cin + t[1]) * g.kH + t[2]) * g.kW + t[3]>> :
      t \in {u \in Taps(g) : ih(u) \in Below(g.H) /\ iw(u) \in Below(g.W)}}

ProductsAt(g, o) ==
  Products(g, o \div (g.Cout * g.spatial), (o \div g.spatial) % g.Cout,
           (o \div g.outW) % g.outH, o % g.outW)

cpu_conv2d(g, input, weight, bias) ==
  [o \in Below(g.N * g.Cout * g.spatial) |->
     SumOf(LAMBDA p : input[p[1]] * weight[p[2]], ProductsAt(g, o))
       + (IF g.bias_enabled THEN bias[(o \div g.spatial) % g.Cout] ELSE 0)]
=============================================================================
