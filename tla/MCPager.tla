---- MODULE MCPager ----
EXTENDS Pager
====
