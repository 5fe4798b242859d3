--------------------------- MODULE MCEnrollments ---------------------------
(* A small university: two seeded students and one added, two courses. *)
EXTENDS Enrollments

CONSTANTS s1, s2, s3, c1, c2

MCSeeds == {<<s1, c1>>, <<s2, c1>>, <<s2, c2>>}
=============================================================================
