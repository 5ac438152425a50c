------------------------ MODULE MCResolverCallbacks ------------------------
(* Two models to register, one of them the namesake of a type that is not, *)
(* and statements on these and other types that gorm can parse or not.     *)
EXTENDS ResolverCallbacks

CONSTANTS r1, r2

Plain(name, plural, looped) ==
  [Unnamed EXCEPT !.name = name, !.plural = plural, !.looped = looped,
                  !.singular = name, !.struct = TRUE]

user == Plain("user", "users", "users")
namesake == [Plain("user", "users", "users") EXCEPT !.own = "staff", !.receiver = "pointer",
               !.hooks = TRUE, !.relations = TRUE, !.validates = TRUE]
tokenID == Plain("token_id", "token_ids", "token_i_ds")
hooked == [Plain("hooked", "hookeds", "hookeds") EXCEPT !.hooks = TRUE, !.relations = TRUE,
             !.validates = TRUE]

MCModels == [type : {namesake, tokenID}, byPointer : {TRUE}]

On(dests, types, model) ==
  [dest : dests, type : types, model : model, parsed : {FALSE}]

MCStatements ==
  On({"ptr"}, {user}, {FALSE})
  \cup On({"value"}, {tokenID, hooked}, {FALSE})
  \cup On({"pointers"}, {namesake}, {FALSE})
  \cup On({"ptr_slice"}, {namesake}, {FALSE})
  \cup [dest : {"ptr"}, type : {user}, model : {FALSE}, parsed : {TRUE}]

Symmetry == Permutations(Routines)
=============================================================================
