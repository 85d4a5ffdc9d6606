------------------------------- MODULE Heatmap -------------------------------
(***************************************************************************)
(* src/Heatmap.cpp: which blocks an image shows, how large it is, and the  *)
(* pixel each nonce falls into.  The arithmetic mixes int32_t, uint32_t,   *)
(* size_t and float; the image library leaves out what falls outside.      *)
(***************************************************************************)
EXTENDS Integers, Sequences

CONSTANTS
  Modulus,    \* 2^32
  Mantissa,   \* 24: the bits of a float's significand
  Lists,      \* the lists of nonces
  Jobs        \* the settings of the image; without its name and radius

UInt32 == 0..(Modulus - 1)
Int32  == {n \in Int : -Modulus <= 2 * n /\ 2 * n < Modulus}

Settings == [x : UInt32, height : UInt32, start : Int32, end : Int32,
             min_nonce : UInt32, max_nonce : UInt32]

ASSUME HeatmapAssumption ==
  /\ Modulus \in Nat \ {0}
  /\ Mantissa \in Nat \ {0}
  /\ Lists \subseteq Seq(UInt32)
  /\ \A list \in Lists : Len(list) < Modulus
  /\ Jobs \subseteq Settings

VARIABLES
  m_nonces,     \* App's list, the nonce of height h at h + 1
  m_job,
  phase,        \* "new", "render", "draw", "done", "error" or "crashed"
  begin, end,   \* the blocks shown, begin included, end excluded
  m_count, m_x, m_width,
  points        \* what the library is given: index -> column and row

vars == <<m_nonces, m_job, phase, begin, end, m_count, m_x, m_width, points>>

-----------------------------------------------------------------------------
(***************************************************************************)
(* std::ceil of a quotient of two floats.  Both operands are rounded to    *)
(* Mantissa bits first, then the quotient, halves to even each time.       *)
(***************************************************************************)
HalfEven(a, b) ==
  LET q == a \div b
      r == a % b
  IN  IF 2 * r < b \/ (2 * r = b /\ q % 2 = 0) THEN q ELSE q + 1

Exponents == 0..(2 * Mantissa + Modulus)

\* The k for which a / b < 2^k * 2^Mantissa, and for no smaller one.
Ulp(a, b) ==
  LET k == CHOOSE k \in Exponents :
             /\ a < b * 2^(Mantissa + k)
             /\ \A j \in 0..(k - 1) : a >= b * 2^(Mantissa + j)
  IN  2^k

\* A power of two that scales a / b to its full significand.
Scale(a, b) ==
  LET k == CHOOSE k \in Exponents :
             /\ 2 * a * 2^k >= b * 2^Mantissa
             /\ \A j \in 0..(k - 1) : 2 * a * 2^j < b * 2^Mantissa
  IN  2^k

ToFloat(n) == HalfEven(n, Ulp(n, 1)) * Ulp(n, 1)

Ceil_floor(a, b) == a \div b
Ceil(a, b) == (a + b - 1) \div b

CeilQuotient(n, d) ==
  LET a == ToFloat(n)
      b == ToFloat(d)
      s == Scale(a, b)
      u == Ulp(a, b)
  IN  Ceil(HalfEven(a * s, b * u) * u, s)

-----------------------------------------------------------------------------
\* get_iterator<START>.  abs() of the smallest int32_t is undefined, and every
\* outcome a build can produce is at least as great as the list is long.
get_iterator_early(START, pos) ==
  IF pos > 0 THEN IF pos + 1 < Len(m_nonces) THEN pos ELSE Len(m_nonces)
  ELSE IF pos < 0 THEN IF -pos < Len(m_nonces) THEN Len(m_nonces) + pos ELSE 0
  ELSE IF START THEN 0 ELSE Len(m_nonces)

get_iterator(START, pos) ==
  IF pos > 0 THEN IF pos < Len(m_nonces) THEN pos ELSE Len(m_nonces)
  ELSE IF pos < 0 THEN IF -pos < Len(m_nonces) THEN Len(m_nonces) + pos ELSE 0
  ELSE IF START THEN 0 ELSE Len(m_nonces)

\* m_x for a given height: height * 2 is a uint32_t, and where it is 0 the
\* infinite quotient is converted to any uint32_t, at least 1 after max().
BlocksPerPixel(count) ==
  LET rows == (m_job.height * 2) % Modulus
      quotient == CeilQuotient(count, rows)
  IN  IF m_job.x # 0 THEN {m_job.x}
      ELSE IF rows = 0 THEN UInt32 \ {0}
      ELSE {IF quotient > 1 THEN quotient ELSE 1}

TooBig_uint32(width) == (width * m_job.height * 4) % Modulus > Modulus - 1
TooBig(width) == (width * m_job.height * 4) % (Modulus * Modulus) > Modulus - 1

\* Heatmap::render up to the drawing: every early exit throws.
render ==
  /\ phase = "new"
  /\ LET first == get_iterator(TRUE, m_job.start)
         last  == get_iterator(FALSE, m_job.end)
         Shows == /\ m_nonces # <<>> /\ m_job.height # 0
                  /\ first # Len(m_nonces) /\ first < last
     IN  \/ /\ ~ Shows
            /\ phase' = "error"
            /\ UNCHANGED <<begin, end, m_count, m_x, m_width>>
         \/ /\ Shows
            /\ begin' = first
            /\ end' = last
            /\ m_count' = last - first
            /\ m_x' \in BlocksPerPixel(last - first)
            /\ m_width' = CeilQuotient(last - first, m_x')
            /\ phase' = IF TooBig(m_width') THEN "error" ELSE "render"
  /\ UNCHANGED <<m_nonces, m_job, points>>

CustomY == m_job.min_nonce # 0 \/ m_job.max_nonce # 0

\* The nonces of the image's y axis: the whole of uint32_t, or the setting.
Lowest  == IF CustomY THEN m_job.min_nonce ELSE 0
Highest == IF CustomY THEN m_job.max_nonce ELSE Modulus - 1

NonceAt(i) == m_nonces[begin + i + 1]

Asked_all == 0..(m_count - 1)
Asked == {i \in 0..(m_count - 1) : NonceAt(i) >= Lowest /\ NonceAt(i) <= Highest}

\* The nonces of one row; max - min is taken in uint32_t.
NoncesPerRow_offByOne == ((Highest - Lowest) % Modulus) \div (m_job.height + 1)
NoncesPerRow == ((Highest - Lowest) % Modulus) \div m_job.height

\* nonces_heatmap: a division by zero ends the process.
nonces_heatmap ==
  /\ phase = "render"
  /\ \/ /\ NoncesPerRow = 0 /\ Asked # {}
        /\ phase' = "crashed"
        /\ UNCHANGED points
     \/ /\ NoncesPerRow # 0 \/ Asked = {}
        /\ points' = [i \in Asked |-> [column |-> i \div m_x,
                                       row    |-> (Highest - NonceAt(i)) \div NoncesPerRow]]
        /\ phase' = "draw"
  /\ UNCHANGED <<m_nonces, m_job, begin, end, m_count, m_x, m_width>>

\* The file is written or an exception ends the drawing; saveInfo ignores
\* the result of Json::save.
writepng ==
  /\ phase = "draw"
  /\ phase' \in {"done", "error"}
  /\ UNCHANGED <<m_nonces, m_job, begin, end, m_count, m_x, m_width, points>>

Init ==
  /\ m_nonces \in Lists
  /\ m_job \in Jobs
  /\ phase = "new"
  /\ begin = 0 /\ end = 0
  /\ m_count = 0 /\ m_x = m_job.x /\ m_width = 0
  /\ points = <<>>

Next == render \/ nonces_heatmap \/ writepng

Spec == Init /\ [][Next]_vars

-----------------------------------------------------------------------------
(***************************************************************************)
(* Type correctness.                                                       *)
(***************************************************************************)
TypeOK ==
  /\ m_nonces \in Seq(UInt32)
  /\ m_job \in Settings
  /\ phase \in {"new", "render", "draw", "done", "error", "crashed"}
  /\ begin \in Nat /\ end \in Nat /\ m_count \in Nat
  /\ m_x \in UInt32 /\ m_width \in Nat
  /\ DOMAIN points \subseteq 0..(m_count - 1)

\* The heights that the settings start and end denote: counted from the end
\* of the list when negative, unlimited when 0.
Denoted(h) ==
  /\ m_job.start >= 0 => h >= m_job.start
  /\ m_job.start < 0  => h >= Len(m_nonces) + m_job.start
  /\ m_job.end > 0 => h < m_job.end
  /\ m_job.end < 0 => h < Len(m_nonces) + m_job.end

(***************************************************************************)
(* The image shows exactly the blocks that "start" and "end" denote, at    *)
(* least one, whatever their signs and however far they lie outside of the *)
(* list.                                                                   *)
(***************************************************************************)
ShowsDenoted ==
  phase \in {"render", "draw", "done"} =>
    /\ m_count = end - begin /\ m_count > 0
    /\ \A h \in 0..(Len(m_nonces) - 1) : Denoted(h) <=> begin <= h /\ h < end

(***************************************************************************)
(* The geometry: no column is empty and no block falls to the right of the *)
(* image, for as many blocks as a float counts exactly.  The width is      *)
(* computed in float, the column in integers.                              *)
(***************************************************************************)
ColumnsFit ==
  phase \in {"render", "draw", "done"} /\ m_count <= 2^Mantissa =>
    /\ (m_width - 1) * m_x < m_count
    /\ m_count <= m_width * m_x

(***************************************************************************)
(* The pixels fit the products that the code computes in uint32_t, which   *)
(* the check "image too big" is there for: its own product, in size_t,     *)
(* does not wrap for as many blocks as an eighth of uint32_t (2^31 blocks  *)
(* in 2^31 rows would pass it).                                            *)
(***************************************************************************)
ImageFits ==
  phase \in {"render", "draw", "done"} =>
    /\ m_x > 0 /\ m_width > 0
    /\ 8 * m_count <= Modulus => m_width * m_job.height * 4 < Modulus

(***************************************************************************)
(* A nonce inside the limits is drawn below the image, where the library   *)
(* leaves it out, only if it is among the "height" smallest: rows of equal *)
(* size do not divide the nonces evenly, and the rest is at the bottom.    *)
(***************************************************************************)
OnlyLowestLost ==
  \A i \in DOMAIN points :
    points[i].row < m_job.height \/ NonceAt(i) < Lowest + m_job.height

(***************************************************************************)
(* The division by range / height fails only for limits that are closer    *)
(* than the image is high; never without limits.                           *)
(***************************************************************************)
CrashIsNarrow ==
  phase = "crashed" =>
    /\ CustomY
    /\ Lowest <= Highest /\ Highest - Lowest < m_job.height

=============================================================================
