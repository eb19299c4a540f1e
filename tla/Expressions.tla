------------------------------ MODULE Expressions ------------------------------
(***************************************************************************)
(* The programs of "Expression and IQueryable" that walk over expression   *)
(* trees: the queries, and the visitor that rewrites.  They share nothing  *)
(* but the kind of tree.                                                   *)
(***************************************************************************)
EXTENDS HttpQueries

CONSTANTS Trees, Depth, Names, LongNames, Values, Half

VARIABLES parameterToValue, visited

Rewriter == INSTANCE ExpressionTreeVisitor

ASSUME VisitorAssumption == Rewriter!TreesAssumption

(* ExpressionTreeVisitor: a visit keeps what the tree computes for the     *)
(* values of its dictionary.                                               *)
RewriteExact == Rewriter!RewriteExact

(* The comment on its Replace: parameters that have a value are replaced.  *)
ParametersReplaced == Rewriter!ParametersReplaced
=============================================================================
