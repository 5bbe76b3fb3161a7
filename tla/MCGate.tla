------------------------------- MODULE MCGate -------------------------------
\* Small instances of Gate: each way a token can come, alone or with another, and
\* for each parameter a good and a bad value on routes with no, one and two ids.
EXTENDS Gate

CONSTANTS q1, q2

Tokened(cookie, bearer) == [cookie |-> cookie, bearer |-> bearer]
MCCredentials ==
  {Tokened("absent", "absent"), Tokened("bad", "system_admin"),
   Tokened("absent", "bad"), Tokened("restaurant_user", "bad"),
   Tokened("absent", "system_admin"), Tokened("other", "restaurant_user")}

Query(ids, from, to) == [ids |-> ids, from |-> from, to |-> to]
MCQueries ==
  {Query(<<1>>, 1, 2), Query(<<1, Junk>>, 1, 1), Query(<<0>>, 2, 1),
   Query(<<>>, 2, 1), Query(<<>>, Junk, 1), Query(<<2, 1>>, 1, Junk)}
=============================================================================
