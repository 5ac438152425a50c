----------------------------- MODULE MCMockData -----------------------------
(* Three model types with what the builders tell apart, and two models of  *)
(* each with the same ID among others; the pages are walked beside them.   *)
EXTENDS PreloadExpectations, Pagination

Related(name, kind, own, json) ==
  [name |-> name, kind |-> kind, tag |-> "", own |-> own, json |-> json, column |-> own,
   fk |-> "", fkOwn |-> "", fields |-> <<>>]
Field(name, kind, own) == Related(name, kind, own, own)

Relation(field, tag, fk, fkOwn) == [field EXCEPT !.tag = tag, !.fk = fk, !.fkOwn = fkOwn]
Embedded(kind, fields) == [Field("", kind, "") EXCEPT !.fields = fields]

id == Field("ID", "fk", "id")
gormModel ==
  Embedded("gorm", <<id, [Field("DeletedAt", "deleted", "deleted_at") EXCEPT !.tag = "index"]>>)

post == <<gormModel, Field("AuthorID", "fk", "author_id"),
          Relation(Related("Author", "one", "author", "author_json"), "foreignKey", "AuthorID", "author_id"),
          Relation(Related("Comments", "many", "comments", "comments_json"), "foreignKey", "PostID", "post_id")>>
file == <<Embedded("embed", <<id, Field("OwnerID", "fk", "owner_id"),
            Relation(Related("Owner", "one", "owner", "owner_json"), "", "OwnerID", "owner_id")>>),
          [Field("APIKey", "scalar", "a_p_i_key") EXCEPT !.column = "api_key"],
          Related("Author", "ptr", "author", "author_json")>>
user == <<id, [Field("DeletedAt", "deleted", "deleted_at") EXCEPT !.tag = "index"],
          [Field("Email", "scalar", "email") EXCEPT !.tag = "column", !.column = "mail"],
          Relation(Related("Author", "ptr", "author", "author_json"), "foreignKey", "UserID", "user_id")>>

MCTypes == [post |-> post, file |-> file, user |-> user]

(* A model by the values of its fields in the order of the walk.           *)
Model(type, values) ==
  [p \in Paths(type) |-> values[CHOOSE n \in DOMAIN values : Entries(type)[n].path = p]]

MCModels ==
  [post |-> {Model(post, v) : v \in
     {<<<<1>>, <<>>, <<2>>, <<2>>, <<3>>>>, <<<<1>>, <<5>>, <<2>>, <<0>>, <<>>>>,
      <<<<2>>, <<>>, <<0>>, <<0>>, <<4>>>>}},
   file |-> {Model(file, v) : v \in
     {<<<<1>>, <<3>>, <<0>>, <<6>>, <<>>>>, <<<<1>>, <<3>>, <<3>>, <<6>>, <<4>>>>}},
   user |-> {Model(user, v) : v \in
     {<<<<1>>, <<>>, <<7>>, <<>>>>, <<<<2>>, <<5>>, <<7>>, <<2>>>>}}]

Init == PreloadInit /\ PagerInit
(* The two share nothing: each is explored from initial states of the      *)
(* other only.                                                             *)
Next == \/ PreloadNext /\ totalItems = 0 /\ PagerInit /\ UNCHANGED pagerVars
        \/ PagerNext /\ PreloadInit /\ UNCHANGED preloadVars
Spec == Init /\ [][Next]_<<preloadVars, pagerVars>>
=============================================================================
