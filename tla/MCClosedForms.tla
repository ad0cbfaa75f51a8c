--------------------------- MODULE MCClosedForms ---------------------------
(***************************************************************************)
(* Every float of a 5-bit format as a point from 0 up, and every quantile, *)
(* with exp, ln, ln_1p and sinh of each float as the float nearest to the  *)
(* real value.                                                             *)
(***************************************************************************)
EXTENDS ClosedForms, Sequences

\* exp of the floats 0, 1, 2, ... that it keeps below Infinity.
ExpUp ==
  << 144, 144, 144, 144, 144, 144, 144, 144, 144, 144, 144, 144, 144, 144, 144, 144, 144, 144, 144, 144, 144,
     144, 144, 144, 144, 144, 144, 144, 144, 144, 144, 144, 144, 144, 144, 144, 144, 144, 144, 144, 144, 144,
     144, 144, 144, 144, 144, 144, 144, 144, 144, 144, 144, 144, 144, 144, 144, 144, 144, 144, 144, 144, 144,
     144, 145, 145, 145, 145, 145, 145, 145, 145, 145, 145, 145, 145, 145, 145, 145, 145, 145, 145, 145, 145,
     145, 145, 145, 146, 146, 146, 146, 146, 146, 146, 146, 146, 146, 146, 146, 147, 147, 147, 147, 147, 147,
     147, 148, 148, 148, 148, 148, 148, 149, 149, 149, 150, 150, 150, 151, 151, 151, 152, 152, 152, 153, 153,
     154, 154, 154, 155, 156, 157, 158, 159, 160, 160, 161, 161, 162, 163, 163, 164, 164, 165, 166, 167, 169,
     170, 172, 174, 176, 177, 178, 179, 180, 182, 183, 185, 186, 188, 190, 193, 195, 198, 200, 204, 207, 210,
     212, 215, 218, 221, 225, 227, 229, 232, 235, 242, 247, 253, 259, 264, 271, 276, 281, 288, 293, 299 >>

\* exp of 0, -1, -2, ... while it is above 0.
ExpDown ==
  << 144, 144, 144, 144, 144, 144, 144, 144, 144, 144, 144, 144, 144, 144, 144, 144, 144, 144, 144, 144, 144,
     144, 144, 144, 144, 144, 144, 144, 144, 144, 144, 144, 144, 144, 144, 144, 144, 144, 144, 144, 144, 144,
     144, 144, 144, 144, 144, 144, 144, 143, 143, 143, 143, 143, 143, 143, 143, 143, 143, 143, 143, 143, 143,
     143, 143, 143, 143, 143, 143, 143, 143, 143, 143, 142, 142, 142, 142, 142, 142, 142, 142, 142, 142, 142,
     142, 141, 141, 141, 141, 141, 141, 141, 141, 141, 140, 140, 140, 140, 140, 140, 139, 139, 139, 139, 139,
     138, 138, 138, 138, 138, 137, 137, 137, 137, 136, 136, 135, 135, 135, 134, 134, 134, 133, 133, 133, 132,
     132, 132, 131, 131, 130, 130, 129, 129, 128, 127, 126, 125, 124, 124, 123, 122, 121, 120, 120, 118, 117,
     116, 114, 113, 112, 110, 109, 107, 105, 104, 102, 101, 100, 98, 97, 95, 91, 88, 85, 83, 80, 77, 73, 70, 68,
     66, 63, 59, 56, 53, 51, 45, 39, 34, 28, 21, 17, 13, 10, 8, 6, 5, 4, 3, 2, 2, 1, 1, 1 >>

\* ln of every positive finite float.
LnTable ==
  << -193, -190, -189, -188, -187, -186, -185, -185, -184, -184, -184, -183, -183, -183, -182, -182, -182, -182,
     -181, -181, -181, -181, -181, -181, -180, -180, -180, -180, -180, -180, -180, -179, -179, -179, -179, -179,
     -178, -178, -178, -178, -178, -177, -177, -177, -177, -177, -177, -177, -176, -176, -176, -175, -175, -175,
     -174, -174, -174, -173, -173, -173, -173, -172, -172, -172, -171, -171, -170, -170, -170, -169, -169, -168,
     -168, -168, -168, -167, -167, -167, -166, -166, -166, -165, -165, -164, -164, -164, -163, -163, -163, -162,
     -162, -162, -161, -161, -161, -161, -160, -159, -159, -158, -157, -156, -155, -155, -154, -154, -153, -152,
     -152, -151, -151, -150, -149, -148, -147, -147, -146, -145, -144, -143, -142, -141, -140, -138, -137, -136,
     -135, -134, -132, -130, -129, -126, -123, -120, -117, -114, -112, -107, -102, -97, -89, -81, -64, 0, 79, 94,
     102, 109, 113, 116, 119, 122, 125, 127, 129, 130, 131, 132, 133, 134, 136, 138, 140, 141, 143, 144, 145,
     146, 146, 147, 147, 148, 149, 149, 150, 150, 151, 152, 153, 154, 155, 155, 156, 157, 157, 158, 159, 159,
     160, 160, 160, 161, 161, 162, 162, 162, 163, 163, 164, 164, 164, 165, 165, 165, 165, 166, 166, 166, 167,
     167, 168, 168, 168, 169, 169, 169, 170, 170, 170, 171, 171, 171, 171, 172, 172, 173, 173, 174, 174, 174,
     175, 175, 175, 176, 176, 176, 176, 176, 177, 177, 177, 177, 177, 178, 178, 178, 178, 178, 178, 179, 179,
     179, 179, 179, 179, 179, 180, 180, 180, 180, 180, 181, 181, 181, 181, 181, 182, 182, 182, 182, 182, 182,
     182, 183, 183, 183, 183, 183, 184, 184, 184, 184, 184, 184, 185, 185, 185, 185, 185, 185, 186, 186, 186,
     186, 186, 187, 187, 187, 187, 187, 187, 187, 188 >>

\* - ln(1 - x) of the floats between 0 and One.
Ln1pDown ==
  << 1, 2, 3, 4, 5, 6, 7, 8, 9, 10, 11, 12, 13, 14, 15, 16, 17, 18, 19, 20, 21, 22, 23, 24, 25, 26, 27, 28, 29,
     30, 31, 32, 33, 34, 35, 36, 37, 38, 39, 40, 41, 42, 43, 44, 45, 46, 47, 48, 49, 50, 51, 52, 53, 54, 55, 56,
     57, 58, 59, 60, 61, 62, 63, 64, 65, 66, 67, 68, 69, 70, 72, 73, 74, 75, 76, 77, 78, 79, 80, 81, 82, 83, 84,
     85, 86, 87, 88, 89, 90, 91, 93, 94, 95, 96, 97, 97, 98, 99, 101, 102, 103, 104, 105, 107, 108, 109, 110,
     112, 112, 113, 114, 114, 116, 117, 119, 120, 121, 123, 124, 126, 128, 129, 130, 130, 131, 132, 133, 134,
     136, 138, 141, 143, 145, 147, 148, 150, 152, 155, 158, 161, 163, 166, 172 >>

\* ln(1 + x) of every finite float from 0.
Ln1pUp ==
  << 0, 1, 2, 3, 4, 5, 6, 7, 8, 9, 10, 11, 12, 13, 14, 15, 16, 17, 18, 19, 20, 21, 22, 23, 24, 25, 26, 27, 28,
     29, 30, 31, 32, 33, 34, 35, 36, 37, 38, 39, 40, 41, 42, 43, 44, 45, 46, 47, 48, 49, 50, 51, 52, 53, 54, 55,
     56, 57, 58, 59, 60, 61, 62, 63, 64, 65, 66, 67, 68, 69, 70, 70, 71, 72, 73, 74, 75, 76, 77, 78, 79, 80, 81,
     82, 83, 84, 85, 86, 87, 88, 89, 90, 91, 91, 92, 93, 94, 96, 97, 98, 99, 99, 100, 101, 102, 103, 104, 104,
     105, 106, 107, 108, 109, 110, 112, 113, 113, 114, 115, 116, 116, 117, 118, 119, 119, 120, 121, 121, 122,
     123, 125, 126, 127, 128, 129, 129, 130, 130, 131, 132, 132, 133, 133, 134, 134, 135, 136, 137, 138, 139,
     140, 141, 141, 142, 143, 144, 144, 145, 145, 145, 146, 146, 147, 147, 148, 149, 149, 150, 150, 151, 151,
     152, 152, 153, 153, 153, 154, 155, 155, 156, 157, 157, 158, 159, 159, 160, 160, 160, 161, 161, 161, 161,
     162, 162, 162, 163, 163, 164, 164, 164, 165, 165, 165, 165, 166, 166, 166, 166, 167, 167, 168, 168, 168,
     169, 169, 169, 170, 170, 170, 171, 171, 171, 171, 172, 172, 172, 173, 173, 174, 174, 174, 175, 175, 175,
     176, 176, 176, 176, 176, 177, 177, 177, 177, 177, 178, 178, 178, 178, 178, 178, 179, 179, 179, 179, 179,
     179, 179, 180, 180, 180, 180, 181, 181, 181, 181, 181, 181, 182, 182, 182, 182, 182, 182, 182, 183, 183,
     183, 183, 183, 184, 184, 184, 184, 184, 184, 185, 185, 185, 185, 185, 185, 186, 186, 186, 186, 186, 187,
     187, 187, 187, 187, 187, 187, 188 >>

\* sinh of the floats 0, 1, 2, ... that it keeps below Infinity.
SinhTable ==
  << 0, 1, 2, 3, 4, 5, 6, 7, 8, 9, 10, 11, 12, 13, 14, 15, 16, 17, 18, 19, 20, 21, 22, 23, 24, 25, 26, 27, 28,
     29, 30, 31, 32, 33, 34, 35, 36, 37, 38, 39, 40, 41, 42, 43, 44, 45, 46, 47, 48, 49, 50, 51, 52, 53, 54, 55,
     56, 57, 58, 59, 60, 61, 62, 63, 64, 65, 66, 67, 68, 69, 70, 71, 72, 73, 74, 75, 76, 77, 78, 79, 80, 81, 82,
     83, 84, 85, 86, 87, 88, 89, 90, 91, 92, 93, 94, 95, 96, 97, 98, 99, 100, 101, 102, 103, 104, 105, 106, 107,
     108, 109, 110, 111, 112, 113, 114, 115, 116, 117, 118, 119, 121, 122, 123, 124, 125, 126, 127, 128, 129,
     130, 131, 132, 133, 135, 136, 137, 138, 140, 141, 142, 144, 145, 145, 146, 147, 148, 150, 152, 154, 156,
     158, 160, 161, 162, 164, 165, 166, 168, 169, 171, 173, 177, 179, 181, 184, 187, 191, 194, 196, 199, 202,
     205, 209, 211, 213, 216, 219, 226, 231, 237, 243, 248, 255, 260, 265, 272, 277, 283, 289, 294, 300 >>

\* The entry of a size counted from 0, and what stands past the last one.
Looked(table, size, past) == IF size < Len(table) THEN table[size + 1] ELSE past

MCExp == [v \in Codes |-> IF v >= 0 THEN Looked(ExpUp, v, Infinity) ELSE Looked(ExpDown, - v, 0)]

MCLn == [x \in 0 .. Infinity |-> IF x = 0 THEN - Infinity ELSE Looked(LnTable, x - 1, Infinity)]

MCLn1p ==
  [x \in - One .. Infinity |->
     IF x >= 0 THEN Looked(Ln1pUp, x, Infinity) ELSE - Looked(Ln1pDown, - x - 1, Infinity)]

MCSinh == [v \in Codes |-> Signed(v, One, Looked(SinhTable, Abs(v), Infinity))]

MCMaxCount == FromNat(12)
MCDirectComplement == Two
MCTailSlack == NearestTo(1, 1, - Precision)

\* The ends of the format, its subnormals, and the neighbourhoods of 1/2, 1 and 2.
MCParameters ==
  {- Infinity + 1, - One, - 1, 0, 1, MinNormal, Half(One), One - 1, One, One + 1, FromNat(96), Infinity - 1}

MCPoints == {- Infinity, - Infinity + 1, - One - 1, - One, - One + 1, - 2, - 1} \cup 0 .. Infinity

MCQuantiles == - 1 .. One + 1
=============================================================================
