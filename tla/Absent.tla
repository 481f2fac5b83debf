---- MODULE Absent ----
(* Python's None: a model value, different from every other value. *)
CONSTANT None
====
