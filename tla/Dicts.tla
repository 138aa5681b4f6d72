-------------------------------- MODULE Dicts ---------------------------------
(* Python dictionaries, as functions whose domain is the keys they have.       *)

\* {**d, **new}: the keys of both, the values of new before those of d.
Updated(d, new) ==
  [k \in DOMAIN d \union DOMAIN new |-> IF k \in DOMAIN new THEN new[k] ELSE d[k]]
===============================================================================
