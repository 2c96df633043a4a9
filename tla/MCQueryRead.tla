----------------------------- MODULE MCQueryRead -----------------------------
(***************************************************************************)
(* Small instances of QueryRead: two scalar types, an ENUM, a LIST of INT  *)
(* and one of ENUM, a STRUCT that holds a LIST, an unknown type (UUID,     *)
(* TIMETZ, UNION...) and a STRUCT that holds it.  Answers of up to three   *)
(* chunks of one or two columns.                                           *)
(***************************************************************************)
EXTENDS QueryRead

T == {"int", "text", "enum", "list", "struct", "uuid", "uuids", "enums"}

K == [t \in T |->
        CASE t = "list"   -> <<"int">>
          [] t = "struct" -> <<"list", "text">>
          [] t = "enums"  -> <<"enum">>
          [] t = "uuids"  -> <<"int", "uuid">>
          [] OTHER        -> <<>>]

Good == T \ {"uuid", "uuids"}

Plain == T \ {"enum", "enums"}

A(status, types, chunks) ==
  [status |-> status, types |-> types, chunks |-> chunks]

Ok(types, chunks) == A("ok", types, chunks)

Answers ==
  { A("fail", <<"int">>, <<>>), A("raise", <<"int">>, <<>>),
    Ok(<<"int">>, <<>>),
    Ok(<<"int", "text">>, << <<  <<"a", NULL>>, <<"b", "a">> >>,
                             <<  <<"b">>, <<NULL>> >> >>),
    Ok(<<"struct">>, << << <<"a">> >> , << <<NULL>> >>, << <<"b", "a">> >> >>),
    Ok(<<"list", "int">>, << << <<NULL>>, <<"a">> >>, << <<"b">>, <<"b">> >> >>),
    Ok(<<"int", "uuid">>, << << <<"a">>, <<NULL>> >>, << <<"b">>, <<"a">> >> >>),
    Ok(<<"uuids">>, << << <<NULL, NULL>> >>, << <<NULL, "b">> >> >>),
    Ok(<<"enum">>, << << <<"a">> >>, << <<NULL, "b">> >> >>),
    Ok(<<"enums">>, << << <<NULL, "a", "b">> >>, << <<"b">> >> >>),
    Ok(<<"int", "enum">>, << << <<"a", "b", "a">>, <<"a", NULL, "b">> >> >>) }
==============================================================================
