---------------------------- MODULE MCResponses ----------------------------
EXTENDS Responses
MCSegments == {<<"text">>, <<"fence">>, <<"tag", "rest", "invoke", "close">>, <<"tag", "rest", "close">>}
=============================================================================
