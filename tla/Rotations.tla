------------------------------ MODULE Rotations ------------------------------
(***************************************************************************)
(* The quarter-turn rotations, as the matrices of integers the bridges'    *)
(* quaternions stand for (tf2: rows, applied to column vectors).           *)
(***************************************************************************)
EXTENDS Integers

Axes == 1..3
Identity == << <<1, 0, 0>>, <<0, 1, 0>>, <<0, 0, 1>> >>
Zero == <<0, 0, 0>>
Vectors == Int \X Int \X Int
Matrices == Vectors \X Vectors \X Vectors

Dot(u, v) == u[1] * v[1] + u[2] * v[2] + u[3] * v[3]
Plus(u, v) == <<u[1] + v[1], u[2] + v[2], u[3] + v[3]>>
Scaled(k, u) == <<k * u[1], k * u[2], k * u[3]>>
Minus(u, v) == Plus(u, Scaled(-1, v))
Cross(u, v) == <<u[2] * v[3] - u[3] * v[2], u[3] * v[1] - u[1] * v[3], u[1] * v[2] - u[2] * v[1]>>

Rotate(R, v) == <<Dot(R[1], v), Dot(R[2], v), Dot(R[3], v)>>
InverseOf(R) == <<<<R[1][1], R[2][1], R[3][1]>>, <<R[1][2], R[2][2], R[3][2]>>,
                  <<R[1][3], R[2][3], R[3][3]>>>>
\* R after S.
Times(R, S) == LET C == InverseOf(S)
               IN  <<Rotate(C, R[1]), Rotate(C, R[2]), Rotate(C, R[3])>>

Orthogonal == {R \in Matrices : /\ Times(R, InverseOf(R)) = Identity
                                /\ Times(InverseOf(R), R) = Identity}
\* Those that turn right-handed axes into right-handed axes.
Turns == {R \in Orthogonal : Cross(R[3], R[1]) = R[2]}

\* setRPY of tf2 with one angle of a quarter turn.
Roll  == <<<<1, 0, 0>>, <<0, 0, -1>>, <<0, 1, 0>>>>
Pitch == <<<<0, 0, 1>>, <<0, 1, 0>>, <<-1, 0, 0>>>>
Yaw   == <<<<0, -1, 0>>, <<1, 0, 0>>, <<0, 0, 1>>>>
=============================================================================
