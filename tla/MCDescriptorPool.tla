-------------------------- MODULE MCDescriptorPool --------------------------
(* Instances of DescriptorPool for TLC. *)
EXTENDS DescriptorPool, TLC

CONSTANTS a, b, c, o, A, B, C, P, u1, mk

Names(fa, fb, fc, fo) == a :> fa @@ b :> fb @@ c :> fc @@ o :> fo

\* Files that import each other or not, two of them in one package; c may define
\* what a defines, the package, or nothing that clashes, and import itself; b may
\* use what c defines, and c may be missing.  The overlay's file imports a and b.
SmallDatabases ==
  {[has |-> h,
    imports |-> Names(ia, ib, ic, {a, b}),
    defines |-> Names({A}, {B}, {dc}, do),
    uses |-> Names({}, ub, {}, {uo}),
    package |-> Names(P, P, None, None)] :
      h \in {{a, b, c}, {a, b}}, ia \in {{}, {b, c}}, ib \in {{c}, {a, c}},
      ic \in {{}, {a}, {c}}, dc \in {A, C, P}, ub \in {{}, {C}},
      uo \in {A, C}, do \in {{}, {A}}}
=============================================================================
