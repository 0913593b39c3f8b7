---- MODULE MCFunctionStream ----
EXTENDS FunctionStream, TLC

CONSTANTS i1, i2, i3, c1, c2, c3

MCItemIds == {i1, i2, i3}
MCCallIds == {c1, c2, c3}
At(item, index) == [item |-> item, index |-> index]
MCLocators == {At(i1, 0), At(i2, 1), At(i1, Absent), At(Absent, 0), At(i2, 0), At(i3, 1)}
MCOtherLocators == {At(Absent, Absent), At(i1, 0)}
CallSymmetry == Permutations({c1, c2})
====
